---------------------------- MODULE Spec2Model ----------------------------
(***************************************************************************)
(* Model of tools/scrobble.py of Musium: submission of locally recorded   *)
(* listens to Last.fm (cmd_scrobble) and to ListenBrainz                  *)
(* (cmd_submit_listens), the store operations get_listens_to_scrobble and *)
(* set_scrobbled, and the batch builders iter_chunks and                  *)
(* iter_requests_listenbrainz.                                            *)
(*                                                                         *)
(* Times are whole seconds since the epoch.  A listen is a row of the     *)
(* table "listens"; its id is its index in the store.  json_bytes is the  *)
(* length of json.dumps(listen.format_listenbrainz_listen()), which is    *)
(* what the strings of the listen contribute to a request body.           *)
(***************************************************************************)
EXTENDS Integers, Sequences, FiniteSets

VARIABLES
    listens,            \* table listens: id -> row
    pc,                 \* position of the running process, "idle" when none runs
    exit,               \* how the last submit process (in SpecImport: the last import) ended
    runs,               \* number of processes started so far
    now,                \* datetime.now() taken at the start of the current run
    since,              \* lower bound passed to get_listens_to_scrobble, or NoBound
    cursor,             \* sqlite cursor of get_listens_to_scrobble: the row it stands on (0, Null: see CursorRows)
    batch,              \* listens (ids) of the request built last
    response,           \* Last.fm response received last
    n,                  \* iter_requests_listenbrainz: current batch size
    listens_remaining,  \* iter_requests_listenbrainz: buffer
    emitted,            \* batches yielded by iter_requests_listenbrainz in this run
    row_ids,            \* argument of the set_scrobbled calls made directly
    stores,             \* direct set_scrobbled calls: the table after each and the time passed
    accepted,           \* history: id -> number of times a remote accepted the listen
    lost,               \* history: listens accepted remotely when the process died before the commit
    rejected,           \* history: listens Last.fm has answered with a code other than "0"
    marked_by,          \* history: the listens each submit command has marked
    offered,            \* history: listens the query of the current run yields at its start
    faults,             \* number of steps in which the services or the process left the plain course
    lastfm_listens,     \* table lastfm_listens: the natural keys of its rows
    plan,               \* how sqlite walks table listens for the query of the run, "none" without a statement
    is_full,            \* cmd_lastfm_import: the mode of the run
    after_timestamp,    \* cmd_lastfm_import: lower bound of the import, or NoBound
    page,               \* cmd_lastfm_import: number of the page to request
    n_errors,           \* cmd_lastfm_import: consecutive-error counter
    n_have,             \* cmd_lastfm_import: rows counted after the last imported page
    result,             \* cmd_lastfm_import: what import_lastfm_page returned last
    tracks,             \* history: the tracks of the page received last
    fails,              \* history: page requests failed in a row up to now
    recovered,          \* history: a page was imported right after 9 failures in a row
    served_pages,       \* the total page counts the service may report in a response
    imported,           \* history: pages the import has imported
    headers,            \* cmd_submit_listens: rate-limit headers of the response received last
    slept,              \* cmd_submit_listens: seconds the loop body slept before it resumed the generator
    pending,            \* writes of the open sqlite transaction, not yet committed
    argv,               \* sys.argv[1:] of the process started last
    branch,             \* the branch of the dispatch in __main__ that process took
    stream,             \* EventPairer: the events of the input
    pos,                \* EventPairer: number of events consumed
    previous,           \* EventPairer: the register
    paired,             \* EventPairer: the listens emitted, with the positions they came from
    data,               \* format_signed_request: the caller's parameters, in the order of the dict
    sign_input,         \* format_signed_request: the string that is hashed
    request             \* format_signed_request: the request returned

vars == <<listens, pc, exit, runs, now, since, cursor, batch, response, n,
          listens_remaining, emitted, row_ids, stores, accepted, lost, rejected, marked_by,
          offered, faults, lastfm_listens, plan, is_full, after_timestamp, page, n_errors, n_have, result,
          tracks, fails, recovered, served_pages, imported, headers, slept, pending, argv, branch,
          stream, pos, previous, paired, data, sign_input, request>>

\* The locals of cmd_lastfm_import and the history kept of its requests.
import_vars == <<is_full, after_timestamp, page, n_errors, n_have, result, tracks, fails,
                 recovered, served_pages, imported>>

\* The rate-limit headers and the sleep of cmd_submit_listens, the open
\* transaction, and the command line with the branch of __main__ taken.
process_vars == <<headers, slept, pending, argv, branch>>

\* The input, the position, the register and the output of EventPairer.
pairer_vars == <<stream, pos, previous, paired>>

\* The argument, the signature input and the result of format_signed_request.
sign_vars == <<data, sign_input, request>>

---------------------------------------------------------------------------
(* Bounds of the model. *)

\* Number of rows in table listens.
NListens == 56
\* Number of processes started one after another.
MaxRuns == 2
\* Number of processes started one after another once Last.fm has rejected a
\* listen.
MaxRunsAfterReject == 3
\* A mocked Last.fm response rejects any of its first MaxRejectPos items.
MaxRejectPos == 1
\* Number of steps, over all runs, in which a service answers anything but
\* "all accepted" or the process dies.
MaxFaults == 1
\* Longest upstream of listens of one size given to iter_requests_listenbrainz.
MaxUpstream == 150
\* Longest upstream of listens of mixed sizes given to it.
MaxMixedLen == 4
\* Rows of the table set_scrobbled is called on directly.
MarkRows == 3
\* Longest sequence given to iter_chunks on its own.
MaxChunkItems == 120
\* Rows of the table whose scan order is looked at.
OrderRows == 3
\* Imports run one after another.
MaxImportRuns == 2
\* Highest page number an import requests.
MaxImportPage == 4
\* The most parameters a caller passes to format_signed_request.
MaxSignParams == 3
\* Rows of the table the processes of SpecMain run on.
MainRows == 6
\* Longest log of events given to EventPairer, the crafted one apart.
MaxEvents == 3

(* Program constants. *)

\* Listenbrainz enforces a max request body size.
LISTENBRAINZ_MAX_BODY_BYTES == 10240
\* "assuming 215 bytes per listen"
AssumedBytesPerListen == 215
\* Last.fm allows submitting batches of at most 50 scrobbles at once.
LastFmBatchSize == 50
\* The n = n + 5 after a batch that fit.
GrowStep == 5
\* len(json.dumps({"listen_type": "import", "payload": []}))
EmptyBodyBytes == 40
\* len(", "), the separator json.dumps puts between two elements of a list.
ItemSeparatorBytes == 2
\* Last.fm guidelines say to only scrobble after playing for at least 30 seconds.
MinPlaySeconds == 30
\* assert n_errors < 10, "Bailing after 10 consecutive errors."
MaxConsecutiveErrors == 10
\* EventPairer: the seconds the time played may differ from the duration.
PairSlackSeconds == 10
\* timedelta(days=14), in seconds.
LastFmWindow == 14 * 86400

\* scrobbled_at is null: no timestamp of the model is negative.
Null == -1
\* since=None
NoBound == -2

Min(a, b) == IF a < b THEN a ELSE b

Range(s) == {s[i] : i \in 1..Len(s)}

Take(s, k) == SubSeq(s, 1, Min(k, Len(s)))

Drop(s, k) == SubSeq(s, Min(k, Len(s)) + 1, Len(s))

Ids == DOMAIN listens

---------------------------------------------------------------------------
(* get_listens_to_scrobble *)

\* The where clause of the query, for one row.
EligibleNoFilter(row, bound) ==
    /\ row.source = "musium"
    /\ row.completed_at - row.started_at > MinPlaySeconds
    /\ (bound # NoBound => row.started_at > bound)

\* The where clause with >= for both comparisons.
EligibleInclusive(row, bound) ==
    /\ row.scrobbled_at = Null
    /\ row.source = "musium"
    /\ row.completed_at - row.started_at >= MinPlaySeconds
    /\ (bound # NoBound => row.started_at >= bound)

Eligible(row, bound) ==
    /\ row.scrobbled_at = Null
    /\ row.source = "musium"
    /\ row.completed_at - row.started_at > MinPlaySeconds
    /\ (bound # NoBound => row.started_at > bound)

\* The ids the query yields from table t, as a set.
EligibleIds(t, bound) == {id \in DOMAIN t : Eligible(t[id], bound)}

\* The query has no "order by": sqlite hands the rows out in the order of the
\* scan it plans, by rowid for a scan of the table, by start second when it
\* uses the unique index on cast(strftime('%s', started_at) as integer) for
\* the comparison with since.
Plans == {"rowid", "index"}

\* The plans sqlite may pick: the index serves the comparison with since only.
\* (Variable plan is "none" while no statement of the query is prepared.)
PlansFor(bound) == IF bound = NoBound THEN {"rowid"} ELSE Plans

\* What a scan under plan p is ordered by.
ScanKey(t, p, id) == IF p = "index" THEN t[id].started_at ELSE id

\* Two runs of rows, each in the order of the scan, as one run in that order:
\* a row of a comes after the rows of b with a lower key, a row of b after the
\* rows of a with a key up to its own.
Merge(t, p, a, b) ==
    IF a = <<>> THEN b
    ELSE IF b = <<>> THEN a
    ELSE IF ScanKey(t, p, a[Len(a)]) <= ScanKey(t, p, b[1]) THEN a \o b
    ELSE LET PosA(i) == i + Cardinality({j \in 1..Len(b) :
                                            ScanKey(t, p, b[j]) < ScanKey(t, p, a[i])})
             PosB(j) == j + Cardinality({i \in 1..Len(a) :
                                            ScanKey(t, p, a[i]) <= ScanKey(t, p, b[j])})
         IN  [k \in 1..(Len(a) + Len(b)) |->
                 IF \E i \in 1..Len(a) : PosA(i) = k
                 THEN a[CHOOSE i \in 1..Len(a) : PosA(i) = k]
                 ELSE b[CHOOSE j \in 1..Len(b) : PosB(j) = k]]

\* The rows of t with an id in lo..hi that satisfy the where clause and come
\* after row c in the scan of plan p (c = 0: no row is before them), in the
\* order of that scan (the range is walked by halves, so that the walk stays
\* shallow; the halves of a scan by rowid are in order as they are).
RowsBetween(t, bound, p, c, lo, hi) ==
    LET Rows[i \in 1..(Len(t) + 1), j \in 0..Len(t)] ==
            IF i > j THEN <<>>
            ELSE IF i = j
                 THEN (IF /\ Eligible(t[i], bound)
                          /\ (c = 0 \/ ScanKey(t, p, i) > ScanKey(t, p, c))
                       THEN <<i>> ELSE <<>>)
            ELSE IF p = "index"
                 THEN CHOOSE rows \in {Merge(t, p, a, b) : a \in {Rows[i, (i + j) \div 2]},
                                                          b \in {Rows[(i + j) \div 2 + 1, j]}} : TRUE
            ELSE Rows[i, (i + j) \div 2] \o Rows[(i + j) \div 2 + 1, j]
    IN  Rows[lo, hi]

\* The rows a scan of table t under plan p steps to after row c: a scan by
\* rowid resumes at the next rowid, a scan of the index at the next key.
RowsAfter(t, bound, p, c) ==
    RowsBetween(t, bound, p, c, IF p = "rowid" THEN c + 1 ELSE 1, Len(t))

\* for row in results: the rows the cursor hands out from here on while the
\* table stays t.  The sqlite3 cursor steps one row ahead of the row it hands
\* out: c is the row it stands on, whose where clause was evaluated when the
\* row before it was handed out; 0 before execute() has run, Null once
\* sqlite3_step has returned SQLITE_DONE.
CursorRows(t, bound, p, c) ==
    IF c = Null THEN <<>>
    ELSE IF c = 0 THEN RowsAfter(t, bound, p, 0)
    ELSE <<c>> \o RowsAfter(t, bound, p, c)

get_listens_to_scrobble(t, bound, p) == CursorRows(t, bound, p, 0)

---------------------------------------------------------------------------
(* set_scrobbled *)

\* update listens set scrobbled_at = ? with the where clause forgotten.
set_scrobbled_all(t, now_str, ids) ==
    [id \in DOMAIN t |-> [t[id] EXCEPT !.scrobbled_at = now_str]]

\* update that also touches completed_at.
set_scrobbled_completed(t, now_str, ids) ==
    [id \in DOMAIN t |->
        IF id \in Range(ids)
        THEN [t[id] EXCEPT !.scrobbled_at = now_str, !.completed_at = t[id].started_at]
        ELSE t[id]]

\* executemany("update listens set scrobbled_at = ? where id = ?") and commit:
\* the table after the call.  An id that is no row of the table updates nothing.
set_scrobbled(t, now_str, ids) ==
    [id \in DOMAIN t |->
        IF id \in Range(ids)
        THEN [t[id] EXCEPT !.scrobbled_at = now_str]
        ELSE t[id]]

\* The writes of a transaction: the rows an executemany of set_scrobbled
\* updates, the rows import_lastfm_page inserts.
updates_of(ids) == {<<"listens", ids[i]>> : i \in 1..Len(ids)}

inserts_of(table_before, table_after) ==
    {<<"lastfm_listens", row>> : row \in table_after \ table_before}

\* A commit left for later: the writes stay in the open transaction.
tx_commit_deferred(p) == p

\* connection.commit(): no write is left uncommitted.
tx_commit(p) == {}

\* db_conn.rollback(): no write is left uncommitted.
tx_rollback(p) == {}

---------------------------------------------------------------------------
(* iter_chunks *)

\* An iter_chunks without the final "if len(result) > 0: yield result".
iter_chunks_next_full_only(events, k) == IF Len(events) >= k THEN Take(events, k) ELSE <<>>

\* The chunk the next call of next() on iter_chunks(events, k) yields, events
\* being what the upstream iterator still holds; <<>> stands for StopIteration.
iter_chunks_next(events, k) == Take(events, k)

\* What the upstream iterator still holds after that call: a chunk shorter
\* than k means the for loop ran the iterator to its end.
iter_chunks_rest(events, k) == Drop(events, k)

\* The row the cursor stands on after iter_chunks pulled chunk from it, rows
\* being what it had to hand out: the row after the last one of the chunk,
\* stepped to when that one was handed out.
CursorAfter(rows, chunk) ==
    IF Len(chunk) < Len(rows) THEN rows[Len(chunk) + 1] ELSE Null

---------------------------------------------------------------------------
(* The store the processes start from. *)

\* Start time of the oldest listen of the store.
OldStart == 100 * 86400

\* The three shapes of the store: how many bytes the listens take in a
\* ListenBrainz request body.
SizeProfiles == {"uniform", "one_too_big", "two_big"}

JsonBytes(profile, id) ==
    CASE profile = "one_too_big" /\ id = 5 -> 10300
      [] profile = "two_big" /\ id \in {5, 6} -> 5200
      [] OTHER -> 200

\* The start second of a row.  Ids and start times increase together, but for
\* rows 4 and 5 of the uniform store, which were inserted out of the order of
\* their start times: there a scan of the index steps to row 5 before row 4.
StartOf(profile, id) ==
    IF id = 1 THEN OldStart
    ELSE OldStart + 86400
         + 300 * (CASE profile = "uniform" /\ id = 4 -> 5
                    [] profile = "uniform" /\ id = 5 -> 4
                    [] OTHER -> id)

\* Row 1 is the oldest listen, row 2 was imported from another source, row 3
\* played for exactly 30 seconds, row 4 for 31 seconds, row 7 was scrobbled by
\* an earlier run; every other row is a listen of 200 seconds still to scrobble.
InitialRow(profile, id) ==
    [source       |-> IF id = 2 THEN "listenbrainz" ELSE "musium",
     started_at   |-> StartOf(profile, id),
     completed_at |-> StartOf(profile, id)
                      + (CASE id = 3 -> 30 [] id = 4 -> 31 [] OTHER -> 200),
     json_bytes   |-> JsonBytes(profile, id),
     scrobbled_at |-> IF id = 7 THEN OldStart + 2 * 86400 ELSE Null]

\* The instants a process may start at: one second before row 1 leaves the
\* Last.fm window, the second it leaves it, and an hour later.
Nows == {OldStart + LastFmWindow - 1, OldStart + LastFmWindow,
         OldStart + LastFmWindow + 3600}

NoResponse == [accepted |-> 0, is_list |-> TRUE, items |-> <<>>, object |-> ""]

\* result is None.
NoResult == [total_pages |-> 0 - 1, total_listens |-> 0 - 1]

\* No response has come with rate-limit headers.
NoHeaders == [remaining |-> "absent", reset |-> "absent"]

\* No submit loop has received a response, no transaction is open and no
\* command line has been dispatched.
NoProcess ==
    /\ headers = NoHeaders
    /\ slept = 0
    /\ pending = {}
    /\ argv = <<>>
    /\ branch = "none"

\* The empty register of EventPairer.
NoEvent == [type |-> "none", queue_id |-> 0, track_id |-> "", time |-> 0,
            duration_seconds |-> 0]

\* EventPairer has no input.
NoPairer ==
    /\ stream = <<>>
    /\ pos = 0
    /\ previous = NoEvent
    /\ paired = <<>>

\* No request has been built.
NoRequest == [method |-> "none", body |-> <<>>]

\* format_signed_request has not been called.
NoSigned ==
    /\ data = <<>>
    /\ sign_input = <<>>
    /\ request = NoRequest

\* The total page counts Last.fm may report.
ImportTotalPages == {1, 3, 10}

\* The locals of cmd_lastfm_import while no import has run; the service may
\* report any of the page counts.
NoImport ==
    /\ is_full = FALSE
    /\ after_timestamp = NoBound
    /\ page = 1
    /\ n_errors = 0
    /\ n_have = 0
    /\ result = NoResult
    /\ tracks = <<>>
    /\ fails = 0
    /\ recovered = FALSE
    /\ served_pages = ImportTotalPages
    /\ imported = 0

Init ==
    /\ \E profile \in SizeProfiles :
          listens = [id \in 1..NListens |-> InitialRow(profile, id)]
    /\ pc = "idle"
    /\ exit = "none"
    /\ runs = 0
    /\ now = 0
    /\ since = NoBound
    /\ cursor = 0
    /\ batch = <<>>
    /\ response = NoResponse
    /\ n = 0
    /\ listens_remaining = <<>>
    /\ emitted = <<>>
    /\ row_ids = <<>>
    /\ stores = <<>>
    /\ accepted = [id \in 1..NListens |-> 0]
    /\ lost = {}
    /\ rejected = {}
    /\ marked_by = [lastfm |-> {}, listenbrainz |-> {}]
    /\ offered = {}
    /\ faults = 0
    /\ lastfm_listens = {}
    /\ plan = "none"
    /\ NoImport
    /\ NoProcess
    /\ NoPairer
    /\ NoSigned

---------------------------------------------------------------------------
(* cmd_scrobble: submit to Last.fm *)

\* The responses of the mocked service to a batch of k listens: a list of
\* k-1, k or k+1 per-item codes, or one bare code, and an accepted counter that
\* is the number of "0" codes or one less.
CountZero(items) == Cardinality({i \in 1..Len(items) : items[i] = "0"})

LastFmResponses(k) ==
    {[accepted |-> CountZero(items) - d, is_list |-> TRUE, items |-> items, object |-> ""] :
        <<items, d>> \in
            {<<[i \in 1..m |-> IF i \in rej THEN "1" ELSE "0"], d>> :
                <<m, rej, d>> \in {k - 1, k, k + 1} \X (SUBSET (1..MaxRejectPos)) \X {0, 1}}}
    \cup
    {[accepted |-> a, is_list |-> FALSE, items |-> <<>>, object |-> c] :
        <<a, c>> \in {0, 1} \X {"0", "1"}}

\* The per-item results taken as they come, a bare object giving no item.
scrobbles_of_unwrapped(resp) == resp.items

\* scrobbles = response["scrobbles"]["scrobble"], made a list when it is not one.
scrobbles_of(resp) == IF resp.is_list THEN resp.items ELSE <<resp.object>>

RECURSIVE zip_accepted(_, _, _)
zip_accepted(b, scrobbles, i) ==
    IF i > Min(Len(b), Len(scrobbles)) THEN <<>>
    ELSE (IF scrobbles[i] = "0" THEN <<b[i]>> ELSE <<>>) \o zip_accepted(b, scrobbles, i + 1)

\* Every listen of the batch taken as accepted.
ids_accepted_whole_batch(b, resp) == b

\* The loop over zip(batch, scrobbles): the ids of the listens whose result, at
\* the same position, has code "0".
ids_accepted_of(b, resp) == zip_accepted(b, scrobbles_of(resp), 1)

\* The marking done only when the counts agree.
scrobble_marked_checked(t, now_, b, resp) ==
    IF Len(ids_accepted_of(b, resp)) = resp.accepted
    THEN set_scrobbled(t, now_, ids_accepted_of(b, resp))
    ELSE t

\* Table listens after the body of the for loop: set_scrobbled runs before the
\* assert on num_accepted.
scrobble_marked(t, now_, b, resp) == set_scrobbled(t, now_, ids_accepted_of(b, resp))

\* assert len(ids_accepted) == num_accepted
accepted_matches(b, resp) == Len(ids_accepted_of(b, resp)) = resp.accepted

\* The per-item result the response carries for the listen at position i of the
\* batch, "none" when it carries none.
ResultAt(resp, i) ==
    IF resp.is_list
    THEN (IF i <= Len(resp.items) THEN resp.items[i] ELSE "none")
    ELSE (IF i = 1 THEN resp.object ELSE "none")

\* The listens of batch b the response reports as accepted by the service.
AcceptedByRemote(b, resp) == {b[i] : i \in {j \in 1..Len(b) : ResultAt(resp, j) = "0"}}

\* The listens of batch b the response carries a code other than "0" for.
RejectedByRemote(b, resp) ==
    {b[i] : i \in {j \in 1..Len(b) : ResultAt(resp, j) \notin {"0", "none"}}}

\* What the service answers when it accepts every listen of a batch of k.
PlainResponse(resp, k) ==
    /\ resp.accepted = k
    /\ \/ resp.is_list /\ resp.items = [i \in 1..k |-> "0"]
       \/ ~resp.is_list /\ k = 1 /\ resp.object = "0"

Bump(f, ids) == [id \in DOMAIN f |-> IF id \in ids THEN f[id] + 1 ELSE f[id]]

\* cmd_scrobble up to its loop: now is taken and the query started.
BeginScrobble ==
    /\ \E t \in Nows :
          /\ t >= now
          /\ now' = t
          /\ since' = t - LastFmWindow
          /\ offered' = EligibleIds(listens, t - LastFmWindow)
    /\ runs' = runs + 1
    /\ pc' = "lf_next"
    /\ exit' = "running"
    /\ cursor' = 0
    /\ batch' = <<>>
    /\ response' = NoResponse
    /\ n' = 0
    /\ listens_remaining' = <<>>
    /\ emitted' = <<>>
    /\ headers' = NoHeaders
    /\ slept' = 0
    /\ plan' \in PlansFor(since')
    /\ UNCHANGED <<listens, row_ids, stores, accepted, lost, rejected, marked_by, faults, lastfm_listens, import_vars,
                   pending, pairer_vars, sign_vars>>

StartScrobble ==
    /\ pc = "idle"
    /\ runs < MaxRuns
    /\ BeginScrobble
    /\ UNCHANGED <<argv, branch>>

\* iter_chunks has a next chunk: the request is built and sent.
LfSend ==
    /\ pc = "lf_next"
    /\ \E chunk \in {iter_chunks_next(CursorRows(listens, since, plan, cursor), LastFmBatchSize)} :
          /\ chunk # <<>>
          /\ batch' = chunk
          /\ cursor' = CursorAfter(CursorRows(listens, since, plan, cursor), chunk)
    /\ pc' = "lf_wait"
    /\ UNCHANGED <<listens, exit, runs, now, since, response, n, listens_remaining,
                   emitted, row_ids, stores, accepted, lost, rejected, marked_by, offered, faults, lastfm_listens, plan, import_vars,
                   process_vars, pairer_vars, sign_vars>>

\* iter_chunks is exhausted: the command returns.
LfDone ==
    /\ pc = "lf_next"
    /\ iter_chunks_next(CursorRows(listens, since, plan, cursor), LastFmBatchSize) = <<>>
    /\ cursor' = Null
    /\ plan' = "none"
    /\ pc' = "idle"
    /\ exit' = "done"
    /\ UNCHANGED <<listens, runs, now, since, batch, response, n, listens_remaining,
                   emitted, row_ids, stores, accepted, lost, rejected, marked_by, offered, faults, lastfm_listens, import_vars,
                   process_vars, pairer_vars, sign_vars>>

\* urlopen returns the response of the service.
LfResponse ==
    /\ pc = "lf_wait"
    /\ \E resp \in LastFmResponses(Len(batch)) :
          /\ response' = resp
          /\ accepted' = Bump(accepted, AcceptedByRemote(batch, resp))
          /\ rejected' = rejected \cup RejectedByRemote(batch, resp)
          /\ IF PlainResponse(resp, Len(batch))
             THEN faults' = faults
             ELSE faults < MaxFaults /\ faults' = faults + 1
    /\ pc' = "lf_recv"
    /\ UNCHANGED <<listens, exit, runs, now, since, cursor, batch, n, listens_remaining,
                   emitted, row_ids, stores, lost, marked_by, offered, lastfm_listens, plan, import_vars,
                   process_vars, pairer_vars, sign_vars>>

\* urlopen raises HTTPError, which cmd_scrobble does not catch.
LfHttpError ==
    /\ pc = "lf_wait"
    /\ faults < MaxFaults
    /\ faults' = faults + 1
    /\ pc' = "idle"
    /\ exit' = "http_error"
    /\ UNCHANGED <<listens, runs, now, since, cursor, batch, response, n, listens_remaining,
                   emitted, row_ids, stores, accepted, lost, rejected, marked_by, offered, lastfm_listens, plan, import_vars,
                   process_vars, pairer_vars, sign_vars>>

\* The rest of the loop body: the per-item results, set_scrobbled, the assert.
LfProcess ==
    /\ pc = "lf_recv"
    /\ listens' = scrobble_marked(listens, now, batch, response)
    /\ \/ /\ accepted_matches(batch, response)
          /\ pc' = "lf_next"
          /\ exit' = exit
       \/ /\ ~accepted_matches(batch, response)
          /\ pc' = "idle"
          /\ exit' = "assert_accepted"
    /\ pending' = tx_commit(pending \cup updates_of(ids_accepted_of(batch, response)))
    /\ marked_by' = [marked_by EXCEPT !.lastfm = @ \cup Range(ids_accepted_of(batch, response))]
    /\ UNCHANGED <<runs, now, since, cursor, batch, response, n, listens_remaining,
                   emitted, row_ids, stores, accepted, lost, rejected, offered, faults, lastfm_listens, plan, import_vars,
                   headers, slept, argv, branch, pairer_vars, sign_vars>>

---------------------------------------------------------------------------
(* format_batch_request_listenbrainz and iter_requests_listenbrainz *)

\* The bytes the listens b[lo..hi] take together.
RECURSIVE BytesBetween(_, _, _, _)
BytesBetween(t, b, lo, hi) ==
    IF lo > hi THEN 0
    ELSE IF lo = hi THEN t[b[lo]].json_bytes
    ELSE BytesBetween(t, b, lo, (lo + hi) \div 2)
         + BytesBetween(t, b, (lo + hi) \div 2 + 1, hi)

\* The bytes the listens of b take together.
SumBytes(t, b) == BytesBetween(t, b, 1, Len(b))

\* len(body_bytes): the empty body, the listens and the ", " between them.
body_bytes_len(t, b) ==
    EmptyBodyBytes + SumBytes(t, b)
    + (IF Len(b) > 0 THEN ItemSeparatorBytes * (Len(b) - 1) ELSE 0)

\* A size check that lets a body of twice the limit through.
request_fits_twice(t, b) == body_bytes_len(t, b) <= 2 * LISTENBRAINZ_MAX_BODY_BYTES

\* format_batch_request_listenbrainz returns a request (not None).
request_fits(t, b) == ~(body_bytes_len(t, b) > LISTENBRAINZ_MAX_BODY_BYTES)

listens_per_batch == LISTENBRAINZ_MAX_BODY_BYTES \div AssumedBytesPerListen

\* A buffer that is topped up to one batch only.
runs_low_one_batch(buf) == Len(buf) < listens_per_batch

\* while len(listens_remaining) < 2 * listens_per_batch: the buffer runs low.
runs_low(buf) == Len(buf) < 2 * listens_per_batch

\* An assert that lets n go down to zero.
may_shrink_to_zero(k) == k > 0

\* assert n > 1, "A listen is too big to submit"
may_shrink(k) == k > 1

\* A shrink that leaves n as it is.
shrink_stuck(k) == k

\* n = n - 1
shrink(k) == k - 1

\* A generator that keeps n after a batch that fit.
grow_none(k) == k

\* n = n + 5
grow(k) == k + GrowStep

\* A put-back that forgets the batch.
put_back_lost(b, rest) == rest

\* listens_remaining = batch + listens_remaining
put_back(b, rest) == b \o rest

\* cmd_submit_listens up to its loop: now is taken, the query and the
\* generator started.
BeginSubmit ==
    /\ \E t \in Nows : t >= now /\ now' = t
    /\ since' = NoBound
    /\ offered' = EligibleIds(listens, NoBound)
    /\ runs' = runs + 1
    /\ pc' = "lb_gen"
    /\ exit' = "running"
    /\ cursor' = 0
    /\ batch' = <<>>
    /\ response' = NoResponse
    /\ n' = listens_per_batch
    /\ listens_remaining' = <<>>
    /\ emitted' = <<>>
    /\ headers' = NoHeaders
    /\ slept' = 0
    /\ plan' \in PlansFor(since')
    /\ UNCHANGED <<listens, row_ids, stores, accepted, lost, rejected, marked_by, faults, lastfm_listens, import_vars,
                   pending, pairer_vars, sign_vars>>

StartSubmit ==
    /\ pc = "idle"
    /\ runs < MaxRuns
    /\ BeginSubmit
    /\ UNCHANGED <<argv, branch>>

\* The chunk next(batches) returns, <<>> when it raises StopIteration.
NextChunk == iter_chunks_next(CursorRows(listens, since, plan, cursor), listens_per_batch)

\* The inner while loop has ended: the buffer is full enough, or next(batches)
\* raised StopIteration.
Replenished == ~runs_low(listens_remaining) \/ NextChunk = <<>>

\* The buffer runs low and iter_chunks has a chunk: it is added to the buffer.
LbPull ==
    /\ pc = "lb_gen"
    /\ runs_low(listens_remaining)
    /\ \E chunk \in {NextChunk} :
          /\ chunk # <<>>
          /\ listens_remaining' = listens_remaining \o chunk
          /\ cursor' = CursorAfter(CursorRows(listens, since, plan, cursor), chunk)
    /\ slept' = 0
    /\ UNCHANGED <<listens, pc, exit, runs, now, since, batch, response, n, emitted,
                   row_ids, stores, accepted, lost, rejected, marked_by, offered, faults, lastfm_listens, plan, import_vars,
                   headers, pending, argv, branch, pairer_vars, sign_vars>>

\* The buffer is empty after replenishing: the generator and the command end.
LbStop ==
    /\ pc = "lb_gen"
    /\ Replenished
    /\ Len(listens_remaining) = 0
    /\ cursor' = Null
    /\ plan' = "none"
    /\ pc' = "idle"
    /\ exit' = "done"
    /\ slept' = 0
    /\ UNCHANGED <<listens, runs, now, since, batch, response, n, listens_remaining, emitted,
                   row_ids, stores, accepted, lost, rejected, marked_by, offered, faults, lastfm_listens, import_vars,
                   headers, pending, argv, branch, pairer_vars, sign_vars>>

\* The first n listens of the buffer fit in a request: the batch is yielded.
LbYield ==
    /\ pc = "lb_gen"
    /\ Replenished
    /\ Len(listens_remaining) # 0
    /\ \E b \in {Take(listens_remaining, n)} :
          /\ request_fits(listens, b)
          /\ Len(b) > 0
          /\ batch' = b
          /\ emitted' = Append(emitted, b)
    /\ listens_remaining' = Drop(listens_remaining, n)
    /\ slept' = 0
    /\ pc' = "lb_wait"
    /\ UNCHANGED <<listens, exit, runs, now, since, cursor, response, n,
                   row_ids, stores, accepted, lost, rejected, marked_by, offered, faults, lastfm_listens, plan,
                   import_vars, headers, pending, argv, branch, pairer_vars, sign_vars>>

\* They do not fit and n > 1: the batch goes back and n shrinks.
LbShrink ==
    /\ pc = "lb_gen"
    /\ Replenished
    /\ Len(listens_remaining) # 0
    /\ \E b \in {Take(listens_remaining, n)} :
          /\ ~request_fits(listens, b)
          /\ listens_remaining' = put_back(b, Drop(listens_remaining, n))
    /\ may_shrink(n)
    /\ n' = shrink(n)
    /\ slept' = 0
    /\ UNCHANGED <<listens, pc, exit, runs, now, since, cursor, batch, response, emitted,
                   row_ids, stores, accepted, lost, rejected, marked_by, offered, faults, lastfm_listens, plan, import_vars,
                   headers, pending, argv, branch, pairer_vars, sign_vars>>

\* They do not fit and n = 1: assert n > 1 fails.
LbTooBig ==
    /\ pc = "lb_gen"
    /\ Replenished
    /\ Len(listens_remaining) # 0
    /\ \E b \in {Take(listens_remaining, n)} :
          /\ ~request_fits(listens, b)
          /\ listens_remaining' = put_back(b, Drop(listens_remaining, n))
    /\ ~may_shrink(n)
    /\ pc' = "idle"
    /\ exit' = "assert_too_big"
    /\ slept' = 0
    /\ UNCHANGED <<listens, runs, now, since, cursor, batch, response, n, emitted,
                   row_ids, stores, accepted, lost, rejected, marked_by, offered, faults, lastfm_listens, plan, import_vars,
                   headers, pending, argv, branch, pairer_vars, sign_vars>>

---------------------------------------------------------------------------
(* cmd_submit_listens: submit to ListenBrainz *)

\* The values a response carries for X-RateLimit-Remaining and for
\* X-RateLimit-Reset-In; "absent" when it does not carry the header.
RateHeaders ==
    {[remaining |-> "absent", reset |-> "absent"],
     [remaining |-> "0", reset |-> "absent"],
     [remaining |-> "1", reset |-> "3"],
     [remaining |-> "2", reset |-> "3"]}

\* int(s), and float(s) for the whole numbers the model sends.
int_of(s) ==
    CASE s = "0" -> 0 [] s = "1" -> 1 [] s = "2" -> 2 [] s = "3" -> 3 [] s = "10" -> 10

\* response.headers.get(name, default)
header_get(value, default) == IF value = "absent" THEN default ELSE value

\* A limit that only counts a quota of 0 as used up.
rate_limited_at_zero(h) == int_of(header_get(h.remaining, "10")) <= 0

\* if int(response.headers.get("X-RateLimit-Remaining", "10")) <= 1
rate_limited(h) == int_of(header_get(h.remaining, "10")) <= 1

\* sleep_seconds = float(response.headers.get("X-RateLimit-Reset-In", "1"))
sleep_seconds(h) == int_of(header_get(h.reset, "1"))

\* The seconds the loop body sleeps after a response with headers h.
rate_limit_sleep(h) == IF rate_limited(h) THEN sleep_seconds(h) ELSE 0

\* urlopen returns a response with status 200.
LbResponse200 ==
    /\ pc = "lb_wait"
    /\ accepted' = Bump(accepted, Range(batch))
    /\ headers' \in RateHeaders
    /\ pc' = "lb_recv"
    /\ UNCHANGED <<listens, exit, runs, now, since, cursor, batch, response, n,
                   listens_remaining, emitted, row_ids, stores, lost, rejected, marked_by, offered, faults,
                   lastfm_listens, plan, import_vars, slept, pending, argv, branch,
                   pairer_vars, sign_vars>>

\* set_scrobbled for the whole batch, which commits.
LbCommit ==
    /\ pc = "lb_recv"
    /\ listens' = set_scrobbled(listens, now, batch)
    /\ pc' = "lb_rate"
    /\ pending' = tx_commit(pending \cup updates_of(batch))
    /\ marked_by' = [marked_by EXCEPT !.listenbrainz = @ \cup Range(batch)]
    /\ UNCHANGED <<exit, runs, now, since, cursor, batch, response, n, listens_remaining,
                   emitted, row_ids, stores, accepted, lost, rejected, offered, faults,
                   lastfm_listens, plan, import_vars, headers, slept, argv, branch, pairer_vars, sign_vars>>

\* The rest of the loop body: the sleep when the quota is used up; then the for
\* loop resumes the generator, which grows n.
LbRateLimit ==
    /\ pc = "lb_rate"
    /\ slept' = rate_limit_sleep(headers)
    /\ headers' = NoHeaders
    /\ n' = grow(n)
    /\ pc' = "lb_gen"
    /\ UNCHANGED <<listens, exit, runs, now, since, cursor, batch, response,
                   listens_remaining, emitted, row_ids, stores, accepted, lost, rejected, marked_by, offered,
                   faults, lastfm_listens, plan, import_vars, pending, argv, branch,
                   pairer_vars, sign_vars>>

\* An except clause that prints the error and goes on with the next batch.
LbHttpErrorContinues ==
    /\ pc = "lb_wait"
    /\ faults < MaxFaults
    /\ faults' = faults + 1
    /\ pc' = "lb_gen"
    /\ UNCHANGED <<listens, exit, runs, now, since, cursor, batch, response, n,
                   listens_remaining, emitted, row_ids, stores, accepted, lost, rejected, marked_by, offered,
                   lastfm_listens, plan, import_vars, process_vars, pairer_vars, sign_vars>>

\* urlopen raises HTTPError: the error is printed and sys.exit(1) called.
LbHttpError ==
    /\ pc = "lb_wait"
    /\ faults < MaxFaults
    /\ faults' = faults + 1
    /\ pc' = "idle"
    /\ exit' = "http_error"
    /\ headers' = NoHeaders
    /\ UNCHANGED <<listens, runs, now, since, cursor, batch, response, n, listens_remaining,
                   emitted, row_ids, stores, accepted, lost, rejected, marked_by, offered, lastfm_listens, plan, import_vars,
                   slept, pending, argv, branch, pairer_vars, sign_vars>>

\* How a process ends that neither returns nor calls sys.exit: "exception",
\* an exception nothing catches (a URLError or another network error that is
\* no HTTPError, a response that is no JSON or lacks a key, a ListenBrainz
\* status other than 200, an error of sqlite), after which the interpreter
\* prints the traceback and exits with code 1; "killed", a signal or a power
\* loss, after which there is no exit code.
CrashExits == {"exception", "killed"}

\* The process ends in one of these ways while a request is out or before the
\* result of the request is committed.
Crash ==
    /\ pc \in {"lf_wait", "lf_recv", "lb_wait", "lb_recv"}
    /\ faults < MaxFaults
    /\ faults' = faults + 1
    /\ lost' = lost \cup (CASE pc = "lf_recv" -> AcceptedByRemote(batch, response)
                            [] pc = "lb_recv" -> Range(batch)
                            [] OTHER -> {})
    /\ pc' = "idle"
    /\ exit' \in CrashExits
    /\ headers' = NoHeaders
    /\ UNCHANGED <<listens, runs, now, since, cursor, batch, response, n, listens_remaining,
                   emitted, row_ids, stores, accepted, rejected, marked_by, offered, lastfm_listens, plan,
                   import_vars, slept, pending, argv, branch, pairer_vars, sign_vars>>

---------------------------------------------------------------------------
(* import_lastfm_page and cmd_lastfm_import *)

\* The instant the import runs at, and the start of its window of 16 days.
ImNow == OldStart + 20 * 86400

ImportWindow == 16 * 86400

\* Tracks Last.fm may return: one scrobbled an hour before the window starts,
\* the same one reported with an album mbid, one scrobbled at the very second
\* the window starts, and one scrobbled an hour into the window whose name is
\* one of the misencoded ones.
TrackOld == [started_at |-> ImNow - ImportWindow - 3600, name |-> "a", album_mbid |-> ""]

TrackOldMbid == [started_at |-> ImNow - ImportWindow - 3600, name |-> "a", album_mbid |-> "m"]

TrackEdge == [started_at |-> ImNow - ImportWindow, name |-> "b", album_mbid |-> ""]

TrackIn == [started_at |-> ImNow - ImportWindow + 3600, name |-> "misencoded", album_mbid |-> ""]

\* s.encode("latin-1").decode("utf-8") for a name that holds the misencoded
\* e acute, the name itself otherwise.
fix_misencodings(s_) == IF s_ = "misencoded" THEN "decoded" ELSE s_

\* The row the insert statement writes for a track; title stands for title,
\* track_artist and album.
RowOf(track) ==
    [started_at |-> track.started_at,
     title      |-> fix_misencodings(track.name),
     album_mbid |-> track.album_mbid]

\* The columns a row conflicts on.
NaturalKey(row) == <<row.started_at, row.title>>

\* An insert that replaces the row it conflicts with.
insert_or_replace(table, row) ==
    {r \in table : NaturalKey(r) # NaturalKey(row)} \cup {row}

\* insert into lastfm_listens ... on conflict do nothing
insert_or_ignore(table, row) ==
    IF \E r \in table : NaturalKey(r) = NaturalKey(row) THEN table ELSE table \cup {row}

\* for track in data["track"]: the table after the inserts of a page.
RECURSIVE insert_tracks(_, _)
insert_tracks(table, ts) ==
    IF ts = <<>> THEN table
    ELSE insert_tracks(insert_or_ignore(table, RowOf(ts[1])), Drop(ts, 1))

\* select max(started_at) from lastfm_listens, NoBound for None.
newest_listen(table) ==
    IF table = {} THEN NoBound
    ELSE CHOOSE m \in {r.started_at : r \in table} :
            \A r \in table : r.started_at <= m

\* The bound as the spec words it: narrowed to the newest row when that row is
\* more recent than the start of the window.
after_timestamp_narrowed(full, now_, table) ==
    IF full THEN NoBound
    ELSE IF newest_listen(table) # NoBound /\ newest_listen(table) > now_ - ImportWindow
         THEN newest_listen(table)
         ELSE now_ - ImportWindow

\* after_timestamp: None for a full import, else now - 16 days or the newest
\* row of the table, whichever is earlier.
after_timestamp_of(full, now_, table) ==
    IF full THEN NoBound
    ELSE IF newest_listen(table) # NoBound
         THEN Min(now_ - ImportWindow, newest_listen(table))
         ELSE now_ - ImportWindow

\* select count(1) from lastfm_listens where (started_at > ?)
count_newer(table, bound) ==
    Cardinality({r \in table : r.started_at > (IF bound = NoBound THEN 0 ELSE bound)})

\* A completion check that looks at the counts only.
import_complete_counts_only(have, res, pg) == have = res.total_listens

\* The two break conditions after a page.
import_complete(have, res, pg) == have = res.total_listens \/ pg = res.total_pages

\* A retry that moves on to the next page.
retry_page_skips(pg) == pg + 1

\* continue: the loop requests the same page again.
retry_page(pg) == pg

\* An error counter that a success leaves as it is.
errors_after_success_kept(k) == k

\* n_errors = 0
errors_after_success(k) == 0

\* The pages Last.fm may answer with, and the totals it may report.
ImportPages ==
    {<<TrackIn>>, <<TrackIn, TrackEdge>>, <<TrackOld, TrackOldMbid>>, <<TrackEdge, TrackOld>>,
     <<TrackOldMbid>>}

ImportTotals == {0, 2, 5}

\* cmd_lastfm_import(is_full=full, ...) up to the loop: the mode, the lower
\* bound, page = 1.
BeginImport(full) ==
    /\ now' = ImNow
    /\ is_full' = full
    /\ after_timestamp' = after_timestamp_of(full, ImNow, lastfm_listens)
    /\ page' = 1
    /\ n_errors' = 0
    /\ n_have' = 0
    /\ result' = NoResult
    /\ tracks' = <<>>
    /\ fails' = 0
    /\ imported' = 0
    /\ runs' = runs + 1
    /\ pc' = "im_page"
    /\ exit' = "running"
    /\ UNCHANGED <<listens, since, cursor, batch, response, n, listens_remaining, emitted,
                   row_ids, stores, accepted, lost, rejected, marked_by, offered, faults, lastfm_listens, plan,
                   recovered, served_pages, headers, slept, pending, pairer_vars, sign_vars>>

ImStart ==
    /\ pc = "idle"
    /\ runs < MaxImportRuns
    /\ \E full \in BOOLEAN : BeginImport(full)
    /\ UNCHANGED <<argv, branch>>

\* The response status is not 200: import_lastfm_page returns None before any
\* insert, the transaction is rolled back, the error counted; the loop goes on
\* with the same page after the sleep, or the assert on n_errors fails.
ImPageFailed ==
    /\ pc = "im_page"
    /\ result' = NoResult
    /\ tracks' = <<>>
    /\ n_errors' = n_errors + 1
    /\ fails' = fails + 1
    /\ page' = retry_page(page)
    /\ \/ /\ n_errors + 1 < MaxConsecutiveErrors
          /\ pc' = "im_page"
          /\ exit' = exit
       \/ /\ ~(n_errors + 1 < MaxConsecutiveErrors)
          /\ pc' = "idle"
          /\ exit' = "assert_errors"
    /\ pending' = tx_rollback(pending)
    /\ UNCHANGED <<listens, runs, now, since, cursor, batch, response, n, listens_remaining,
                   emitted, row_ids, stores, accepted, lost, rejected, marked_by, offered, faults, lastfm_listens,
                   plan, is_full, after_timestamp, n_have, recovered, served_pages, imported,
                   headers, slept, argv, branch, pairer_vars, sign_vars>>

\* Status 200 and an empty track list: started_at is never bound, the return
\* statement of import_lastfm_page raises UnboundLocalError and the command
\* ends with it.
ImPageEmpty ==
    /\ pc = "im_page"
    /\ tracks' = <<>>
    /\ fails' = 0
    /\ pc' = "idle"
    /\ exit' = "unbound_error"
    /\ UNCHANGED <<listens, runs, now, since, cursor, batch, response, n, listens_remaining,
                   emitted, row_ids, stores, accepted, lost, rejected, marked_by, offered, faults, lastfm_listens,
                   plan, is_full, after_timestamp, page, n_errors, n_have, result, recovered,
                   served_pages, imported,
                   process_vars, pairer_vars, sign_vars>>

\* Status 200 and tracks: the rows are inserted, the error counter reset, the
\* rows newer than the bound counted, the transaction committed; then the
\* import ends or goes on to the next page.
ImPageImported ==
    /\ pc = "im_page"
    /\ \E ts \in ImportPages, total_pages \in served_pages, total_listens \in ImportTotals :
          \E table \in {insert_tracks(lastfm_listens, ts)} :
             /\ tracks' = ts
             /\ lastfm_listens' = table
             /\ result' = [total_pages |-> total_pages, total_listens |-> total_listens]
             /\ n_have' = count_newer(table, after_timestamp)
             /\ \/ /\ import_complete(count_newer(table, after_timestamp),
                                        [total_pages |-> total_pages,
                                         total_listens |-> total_listens], page)
                   /\ page' = page
                   /\ pc' = "idle"
                   /\ exit' = "done"
                \/ /\ ~import_complete(count_newer(table, after_timestamp),
                                         [total_pages |-> total_pages,
                                          total_listens |-> total_listens], page)
                   /\ page < MaxImportPage
                   /\ page' = page + 1
                   /\ pc' = "im_page"
                   /\ exit' = exit
    /\ n_errors' = errors_after_success(n_errors)
    /\ fails' = 0
    /\ recovered' = (recovered \/ fails = MaxConsecutiveErrors - 1)
    /\ imported' = imported + 1
    /\ served_pages' = served_pages
    /\ pending' = tx_commit(pending \cup inserts_of(lastfm_listens, lastfm_listens'))
    /\ UNCHANGED <<listens, runs, now, since, cursor, batch, response, n, listens_remaining,
                   emitted, row_ids, stores, accepted, lost, rejected, marked_by, offered, faults, plan, is_full,
                   after_timestamp, headers, slept, argv, branch, pairer_vars, sign_vars>>

\* The table the imports of SpecImport start from: empty, holding a row older
\* than the window, or holding a row inside the window.
InitialStagings == {{}, {RowOf(TrackOld)}, {RowOf(TrackIn)}}

InitImport ==
    /\ lastfm_listens \in InitialStagings
    /\ listens = [id \in 1..1 |-> InitialRow("uniform", id)]
    /\ accepted = [id \in 1..1 |-> 0]
    /\ pc = "idle"
    /\ exit = "none"
    /\ runs = 0
    /\ now = 0
    /\ since = NoBound
    /\ cursor = 0
    /\ batch = <<>>
    /\ response = NoResponse
    /\ n = 0
    /\ listens_remaining = <<>>
    /\ emitted = <<>>
    /\ row_ids = <<>>
    /\ stores = <<>>
    /\ lost = {}
    /\ rejected = {}
    /\ marked_by = [lastfm |-> {}, listenbrainz |-> {}]
    /\ offered = {}
    /\ faults = 0
    /\ plan = "none"
    /\ NoImport
    /\ NoProcess
    /\ NoPairer
    /\ NoSigned

NextImport == ImStart \/ ImPageFailed \/ ImPageEmpty \/ ImPageImported

SpecImport == InitImport /\ [][NextImport]_vars

\* One import on its own, from the entry of its loop: either mode, on any of
\* the staging tables, with a service that reports one total page count in
\* all its responses.
InitPages ==
    /\ lastfm_listens \in InitialStagings
    /\ listens = [id \in 1..1 |-> InitialRow("uniform", id)]
    /\ accepted = [id \in 1..1 |-> 0]
    /\ pc = "im_page"
    /\ exit = "running"
    /\ runs = 1
    /\ now = ImNow
    /\ since = NoBound
    /\ cursor = 0
    /\ batch = <<>>
    /\ response = NoResponse
    /\ n = 0
    /\ listens_remaining = <<>>
    /\ emitted = <<>>
    /\ row_ids = <<>>
    /\ stores = <<>>
    /\ lost = {}
    /\ rejected = {}
    /\ marked_by = [lastfm |-> {}, listenbrainz |-> {}]
    /\ offered = {}
    /\ faults = 0
    /\ plan = "none"
    /\ is_full \in BOOLEAN
    /\ after_timestamp = after_timestamp_of(is_full, ImNow, lastfm_listens)
    /\ page = 1
    /\ n_errors = 0
    /\ n_have = 0
    /\ result = NoResult
    /\ tracks = <<>>
    /\ fails = 0
    /\ recovered = FALSE
    /\ served_pages \in {{P} : P \in 1..MaxImportPage}
    /\ imported = 0
    /\ NoProcess
    /\ NoPairer
    /\ NoSigned

NextPages == ImPageFailed \/ ImPageEmpty \/ ImPageImported

\* The loop of cmd_lastfm_import is sequential and every request comes back
\* with a status: the import takes its next step.
SpecPages == InitPages /\ [][NextPages]_vars /\ WF_vars(NextPages)

\* The exit code of a process that ended as e says: 0 after a normal return,
\* 1 after sys.exit(1) or an exception nothing catches; Null when the process
\* was killed or has not ended.
exit_code(e) ==
    CASE e = "done" -> 0
      [] e \in {"http_error", "assert_accepted", "assert_too_big", "assert_errors",
                "unbound_error", "assert_mode", "usage", "exception"} -> 1
      [] OTHER -> Null

Next ==
    \/ StartScrobble \/ LfSend \/ LfDone \/ LfResponse \/ LfHttpError \/ LfProcess
    \/ StartSubmit \/ LbPull \/ LbStop \/ LbYield \/ LbShrink \/ LbTooBig
    \/ LbResponse200 \/ LbCommit \/ LbRateLimit \/ LbHttpError
    \/ Crash

Spec == Init /\ [][Next]_vars

\* After a run in which Last.fm rejected a listen, further processes are
\* started, of either command: a run of cmd_scrobble ...
StartScrobbleAfterReject ==
    /\ pc = "idle"
    /\ rejected # {}
    /\ runs >= MaxRuns
    /\ runs < MaxRunsAfterReject
    /\ BeginScrobble
    /\ UNCHANGED <<argv, branch>>

\* ... or a run of cmd_submit_listens.
StartSubmitAfterReject ==
    /\ pc = "idle"
    /\ rejected # {}
    /\ runs >= MaxRuns
    /\ runs < MaxRunsAfterReject
    /\ BeginSubmit
    /\ UNCHANGED <<argv, branch>>

NextRejected == Next \/ StartScrobbleAfterReject \/ StartSubmitAfterReject

\* The runs of Spec, followed by more runs when a listen was rejected.
SpecRejected == Init /\ [][NextRejected]_vars

---------------------------------------------------------------------------
(* __main__: one process, started with any of the command lines, on a  *)
(* small store.                                                         *)

\* sys.argv[1:] of the processes started.
CommandLines ==
    {<<>>,
     <<"lastfm">>,
     <<"lastfm", "authenticate">>,
     <<"lastfm", "scrobble", "db">>,
     <<"lastfm", "scrobble">>,
     <<"lastfm", "import", "full", "db", "user">>,
     <<"lastfm", "import", "incremental", "db", "user">>,
     <<"lastfm", "import", "everything", "db", "user">>,
     <<"lastfm", "import", "db", "user">>,
     <<"lastfm", "sync", "db", "user">>,
     <<"lastfm", "sync", "db">>,
     <<"listenbrainz", "submit-listens", "db">>,
     <<"listenbrainz", "scrobble", "db">>}

\* command = sys.argv[1:3] when len(sys.argv) > 2, else [].
command_of(a) == IF Len(a) + 1 > 2 THEN SubSeq(a, 1, 2) ELSE <<>>

\* The branch of the if chain of __main__ that sys.argv[1:] = a takes.
dispatch(a) ==
    CASE command_of(a) = <<"lastfm", "authenticate">> /\ Len(a) + 1 = 3 -> "authenticate"
      [] command_of(a) = <<"lastfm", "scrobble">> /\ Len(a) + 1 = 4 -> "scrobble"
      [] command_of(a) = <<"lastfm", "import">> /\ Len(a) + 1 = 6 -> "import"
      [] command_of(a) = <<"lastfm", "sync">> /\ Len(a) + 1 = 5 -> "sync"
      [] command_of(a) = <<"listenbrainz", "submit-listens">> /\ Len(a) + 1 = 4 -> "submit-listens"
      [] OTHER -> "usage"

\* A sync that goes on to the import however cmd_scrobble ended.
sync_goes_on_regardless(e) == e # "running"

\* The second statement of the sync branch is reached when cmd_scrobble has
\* returned.
sync_goes_on(e) == e = "done"

\* No process has been started: SpecMain follows one process.
NoneStarted == pc = "idle" /\ branch = "none"

\* A command that changes nothing in the store ends.
EndsAtOnce(a, how) ==
    /\ argv' = a
    /\ branch' = dispatch(a)
    /\ runs' = runs + 1
    /\ exit' = how
    /\ UNCHANGED <<listens, pc, now, since, cursor, batch, response, n, listens_remaining,
                   emitted, row_ids, stores, accepted, lost, rejected, marked_by, offered, faults, lastfm_listens,
                   plan, import_vars, headers, slept, pending, pairer_vars, sign_vars>>

\* lastfm authenticate: cmd_authenticate is called, which does not open the
\* store; it builds the request of auth.getToken and sends it.
MainAuthenticate ==
    /\ NoneStarted
    /\ \E a \in CommandLines : dispatch(a) = "authenticate" /\ argv' = a /\ branch' = dispatch(a)
    /\ runs' = runs + 1
    /\ pc' = "au_token"
    /\ exit' = "running"
    /\ UNCHANGED <<listens, now, since, cursor, batch, response, n, listens_remaining,
                   emitted, row_ids, stores, accepted, lost, rejected, marked_by, offered, faults, lastfm_listens,
                   plan, import_vars, headers, slept, pending, pairer_vars, sign_vars>>

\* A step of cmd_authenticate ends the process: s is "http_error" for an
\* HTTPError of urlopen, "exception" for any other exception (a URLError, a
\* response without the key, EOFError of input()); nothing catches either.
AuthEnds(s) ==
    /\ pc' = "idle"
    /\ exit' = s

\* urlopen of auth.getToken returns and the token is read from the response:
\* the page to visit is printed and input() waits for a line on stdin.
AuthGetToken ==
    /\ pc = "au_token"
    /\ \/ pc' = "au_input" /\ exit' = exit
       \/ \E s \in {"http_error", "exception"} : AuthEnds(s)
    /\ UNCHANGED <<listens, runs, now, since, cursor, batch, response, n, listens_remaining,
                   emitted, row_ids, stores, accepted, lost, rejected, marked_by, offered, faults, lastfm_listens,
                   plan, import_vars, process_vars, pairer_vars, sign_vars>>

\* input() returns a line and the request of auth.getSession is sent, or
\* stdin is at its end and input() raises EOFError.
AuthInput ==
    /\ pc = "au_input"
    /\ \/ pc' = "au_session" /\ exit' = exit
       \/ AuthEnds("exception")
    /\ UNCHANGED <<listens, runs, now, since, cursor, batch, response, n, listens_remaining,
                   emitted, row_ids, stores, accepted, lost, rejected, marked_by, offered, faults, lastfm_listens,
                   plan, import_vars, process_vars, pairer_vars, sign_vars>>

\* urlopen of auth.getSession returns: the user name and the session key are
\* printed and the command returns.
AuthGetSession ==
    /\ pc = "au_session"
    /\ \/ AuthEnds("done")
       \/ \E s \in {"http_error", "exception"} : AuthEnds(s)
    /\ UNCHANGED <<listens, runs, now, since, cursor, batch, response, n, listens_remaining,
                   emitted, row_ids, stores, accepted, lost, rejected, marked_by, offered, faults, lastfm_listens,
                   plan, import_vars, process_vars, pairer_vars, sign_vars>>

\* lastfm scrobble
MainScrobble ==
    /\ NoneStarted
    /\ \E a \in CommandLines : dispatch(a) = "scrobble" /\ argv' = a /\ branch' = dispatch(a)
    /\ BeginScrobble

\* lastfm sync: cmd_scrobble is called first.
MainSync ==
    /\ NoneStarted
    /\ \E a \in CommandLines : dispatch(a) = "sync" /\ argv' = a /\ branch' = dispatch(a)
    /\ BeginScrobble

\* lastfm sync: cmd_scrobble has returned and cmd_lastfm_import is called,
\* with is_full=False.
MainSyncImport ==
    /\ pc = "idle"
    /\ branch = "sync"
    /\ sync_goes_on(exit)
    /\ branch' = "sync_import"
    /\ argv' = argv
    /\ BeginImport(FALSE)

\* lastfm import full | incremental
MainImport ==
    /\ NoneStarted
    /\ \E a \in CommandLines :
          /\ dispatch(a) = "import"
          /\ a[3] \in {"full", "incremental"}
          /\ argv' = a
          /\ branch' = dispatch(a)
          /\ BeginImport(a[3] = "full")

\* lastfm import with another word for the mode: the assert fails.
MainImportBadMode ==
    /\ NoneStarted
    /\ \E a \in CommandLines :
          /\ dispatch(a) = "import"
          /\ a[3] \notin {"full", "incremental"}
          /\ EndsAtOnce(a, "assert_mode")

\* listenbrainz submit-listens
MainSubmit ==
    /\ NoneStarted
    /\ \E a \in CommandLines :
          dispatch(a) = "submit-listens" /\ argv' = a /\ branch' = dispatch(a)
    /\ BeginSubmit

\* Any other command line: the usage is printed and sys.exit(1) called.
MainUsage ==
    /\ NoneStarted
    /\ \E a \in CommandLines : dispatch(a) = "usage" /\ EndsAtOnce(a, "usage")

InitMain ==
    /\ \E profile \in SizeProfiles :
          listens = [id \in 1..MainRows |-> InitialRow(profile, id)]
    /\ pc = "idle"
    /\ exit = "none"
    /\ runs = 0
    /\ now = 0
    /\ since = NoBound
    /\ cursor = 0
    /\ batch = <<>>
    /\ response = NoResponse
    /\ n = 0
    /\ listens_remaining = <<>>
    /\ emitted = <<>>
    /\ row_ids = <<>>
    /\ stores = <<>>
    /\ accepted = [id \in 1..MainRows |-> 0]
    /\ lost = {}
    /\ rejected = {}
    /\ marked_by = [lastfm |-> {}, listenbrainz |-> {}]
    /\ offered = {}
    /\ faults = 0
    /\ lastfm_listens = {RowOf(TrackOld)}
    /\ plan = "none"
    /\ NoImport
    /\ NoProcess
    /\ NoPairer
    /\ NoSigned

NextMain ==
    \/ MainAuthenticate \/ MainScrobble \/ MainSync \/ MainSyncImport
    \/ MainImport \/ MainImportBadMode \/ MainSubmit \/ MainUsage
    \/ LfSend \/ LfDone \/ LfResponse \/ LfHttpError \/ LfProcess
    \/ LbPull \/ LbStop \/ LbYield \/ LbShrink \/ LbTooBig
    \/ LbResponse200 \/ LbCommit \/ LbRateLimit \/ LbHttpError
    \/ ImPageFailed \/ ImPageEmpty \/ ImPageImported
    \/ AuthGetToken \/ AuthInput \/ AuthGetSession
    \/ Crash

SpecMain == InitMain /\ [][NextMain]_vars

---------------------------------------------------------------------------
(* EventPairer: listens rebuilt from a log of started and completed events. *)

\* What an event of the log is about: the queue entry, the track and the
\* duration the log declares for it.  Track "A" is queued twice.
QueueEntries ==
    {[queue_id |-> 1, track_id |-> "A", duration_seconds |-> 40],
     [queue_id |-> 2, track_id |-> "B", duration_seconds |-> 35],
     [queue_id |-> 3, track_id |-> "C", duration_seconds |-> 20],
     [queue_id |-> 4, track_id |-> "A", duration_seconds |-> 40]}

\* The seconds between an event and the one before it.
EventGaps == {20, 41}

\* An event of the log, before its time is known.
EventKinds == {"started", "completed"} \X QueueEntries \X EventGaps

\* The log with the events of kinds ks, the first at its gap after OldStart.
RECURSIVE LogOf(_)
LogOf(ks) ==
    IF ks = <<>> THEN <<>>
    ELSE LET before == LogOf(Take(ks, Len(ks) - 1))
             k == ks[Len(ks)]
         IN  Append(before,
                    [type |-> k[1], queue_id |-> k[2].queue_id, track_id |-> k[2].track_id,
                     duration_seconds |-> k[2].duration_seconds,
                     time |-> (IF before = <<>> THEN OldStart ELSE before[Len(before)].time)
                              + k[3]])

\* started A, completed A (declared 40 s, 41 s later), started B, started C,
\* completed C (declared 20 s, 20 s later).
CraftedKinds ==
    LET entry(q) == CHOOSE e \in QueueEntries : e.queue_id = q
    IN  <<<<"started", entry(1), 20>>, <<"completed", entry(1), 41>>,
          <<"started", entry(2), 20>>, <<"started", entry(3), 20>>,
          <<"completed", entry(3), 20>>>>

\* The logs given to EventPairer: every log of up to MaxEvents events, and
\* the crafted one.
EventLogs ==
    {LogOf(ks) : ks \in UNION {[1..k -> EventKinds] : k \in 0..MaxEvents}}
    \cup {LogOf(CraftedKinds)}

\* |a - b|
AbsDiff(a, b) == IF a >= b THEN a - b ELSE b - a

\* A pairing that takes any track, however short.
pairs_up_any_duration(prev, event) ==
    /\ prev.type = "started"
    /\ event.type = "completed"
    /\ prev.queue_id = event.queue_id
    /\ prev.track_id = event.track_id
    /\ AbsDiff(event.time - prev.time, event.duration_seconds) <= PairSlackSeconds

\* The register holds a started event and the current one is its completion:
\* same queue entry and track, the time between them within 10 seconds of the
\* declared duration, and that duration above 30 seconds.
pairs_up(prev, event) ==
    /\ prev.type = "started"
    /\ event.type = "completed"
    /\ prev.queue_id = event.queue_id
    /\ prev.track_id = event.track_id
    /\ AbsDiff(event.time - prev.time, event.duration_seconds) <= PairSlackSeconds
    /\ event.duration_seconds > MinPlaySeconds

\* A register that keeps a started event while other started events pass.
register_keeps_started(prev, event) ==
    IF prev.type = "started" /\ event.type = "started" THEN prev ELSE event

\* The register after an event: that event, matched or not.
register_after(prev, event) == event

InitPair ==
    /\ listens = [id \in 1..1 |-> InitialRow("uniform", id)]
    /\ pc = "idle"
    /\ exit = "none"
    /\ runs = 0
    /\ now = 0
    /\ since = NoBound
    /\ cursor = 0
    /\ batch = <<>>
    /\ response = NoResponse
    /\ n = 0
    /\ listens_remaining = <<>>
    /\ emitted = <<>>
    /\ row_ids = <<>>
    /\ stores = <<>>
    /\ accepted = [id \in 1..1 |-> 0]
    /\ lost = {}
    /\ rejected = {}
    /\ marked_by = [lastfm |-> {}, listenbrainz |-> {}]
    /\ offered = {}
    /\ faults = 0
    /\ lastfm_listens = {}
    /\ plan = "none"
    /\ NoImport
    /\ NoProcess
    /\ NoSigned
    /\ stream \in EventLogs
    /\ pos = 0
    /\ previous = NoEvent
    /\ paired = <<>>

\* The next event of the log is taken: a listen is emitted when it pairs up
\* with the register, and the register becomes that event.
PairEvent ==
    /\ pos < Len(stream)
    /\ pos' = pos + 1
    /\ paired' = IF pairs_up(previous, stream[pos + 1])
                  THEN Append(paired, [listen |-> previous, at |-> pos + 1])
                  ELSE paired
    /\ previous' = register_after(previous, stream[pos + 1])
    /\ UNCHANGED <<listens, pc, exit, runs, now, since, cursor, batch, response, n,
                   listens_remaining, emitted, row_ids, stores, accepted, lost, rejected, marked_by, offered,
                   faults, lastfm_listens, plan, import_vars, process_vars, sign_vars,
                   stream>>

NextPair == PairEvent

SpecPair == InitPair /\ [][NextPair]_vars

---------------------------------------------------------------------------
(* format_signed_request on its own.  A string is the sequence of its code *)
(* points; a dict is the sequence of its items in insertion order.         *)

\* "method", "sk", "track[0]", "trackNumber[0]", "artist[0]"
StrMethod == <<109, 101, 116, 104, 111, 100>>

StrSk == <<115, 107>>

StrTrack0 == <<116, 114, 97, 99, 107, 91, 48, 93>>

StrTrackNumber0 == <<116, 114, 97, 99, 107, 78, 117, 109, 98, 101, 114, 91, 48, 93>>

StrArtist0 == <<97, 114, 116, 105, 115, 116, 91, 48, 93>>

\* "api_key", "api_sig", "format", "json"
StrApiKey == <<97, 112, 105, 95, 107, 101, 121>>

StrApiSig == <<97, 112, 105, 95, 115, 105, 103>>

StrFormat == <<102, 111, 114, 109, 97, 116>>

StrJson == <<106, 115, 111, 110>>

\* The values of the environment variables: "K3y" and "s3cret".
LAST_FM_API_KEY == <<75, 51, 121>>

LAST_FM_SECRET == <<115, 51, 99, 114, 101, 116>>

\* The parameters a caller may pass: method "t.s", sk "S", track[0] "a b",
\* trackNumber[0] "7", artist[0] "r/s".
CallerParams ==
    {<<StrMethod, <<116, 46, 115>>>>, <<StrSk, <<83>>>>, <<StrTrack0, <<97, 32, 98>>>>,
     <<StrTrackNumber0, <<55>>>>, <<StrArtist0, <<114, 47, 115>>>>}

\* The dicts a caller may pass: up to MaxSignParams of these parameters, in
\* any order of insertion.
RECURSIVE DictsOver(_, _)
DictsOver(items, k) ==
    IF k = 0 THEN {<<>>}
    ELSE {<<>>} \cup
         UNION {{<<it>> \o rest : rest \in DictsOver(items \ {it}, k - 1)} : it \in items}

\* a < b for strings: the order of Python's str comparison, by code point.
RECURSIVE StrLessFrom(_, _, _)
StrLessFrom(a, b, i) ==
    IF i > Len(a) THEN i <= Len(b)
    ELSE IF i > Len(b) THEN FALSE
    ELSE IF a[i] # b[i] THEN a[i] < b[i]
    ELSE StrLessFrom(a, b, i + 1)

StrLess(a, b) == StrLessFrom(a, b, 1)

\* {**d, key: value}: the value replaces that of an item with the key, which
\* keeps its place; a new key goes to the end.
dict_set(d, key, value) ==
    IF \E i \in 1..Len(d) : d[i][1] = key
    THEN [i \in 1..Len(d) |-> IF d[i][1] = key THEN <<key, value>> ELSE d[i]]
    ELSE Append(d, <<key, value>>)

\* The items left in the order they were inserted.
unsorted_items(d) == d

\* {k: v for k, v in sorted(params.items())}: the items in ascending order of
\* their keys (keys of a dict are distinct).
RECURSIVE sorted_items(_)
sorted_items(d) ==
    IF d = <<>> THEN <<>>
    ELSE LET least == CHOOSE i \in 1..Len(d) :
                         \A j \in 1..Len(d) : j # i => StrLess(d[i][1], d[j][1])
         IN  <<d[least]>>
             \o sorted_items([i \in 1..(Len(d) - 1) |-> IF i < least THEN d[i] ELSE d[i + 1]])

\* "".join(f"{k}{v}" for k, v in params.items())
RECURSIVE join_items(_)
join_items(d) ==
    IF d = <<>> THEN <<>> ELSE d[1][1] \o d[1][2] \o join_items(Tail(d))

\* hashlib.md5(s.encode("utf-8")).hexdigest(), kept as the term it is.
md5_hexdigest(s_) == [md5 |-> s_]

\* The characters urllib.parse.quote leaves as they are when safe is "":
\* letters, digits and "_.-~".
Unreserved(c) ==
    \/ c \in 48..57 \/ c \in 65..90 \/ c \in 97..122
    \/ c \in {95, 46, 45, 126}

HexDigit(d) == IF d < 10 THEN 48 + d ELSE 55 + d

\* urllib.parse.quote(s, safe="") for a string of ASCII characters.
RECURSIVE quote(_)
quote(s_) ==
    IF s_ = <<>> THEN <<>>
    ELSE (IF Unreserved(s_[1]) THEN <<s_[1]>>
          ELSE <<37, HexDigit(s_[1] \div 16), HexDigit(s_[1] % 16)>>)
         \o quote(Tail(s_))

\* urlencode(params, quote_via=urllib.parse.quote, safe=""): the items as
\* quoted key and quoted value, which "=" and "&" join; a digest is made of
\* hexadecimal digits, which quote leaves as they are.
urlencode(d) ==
    [i \in 1..Len(d) |->
        <<quote(d[i][1]), IF d[i][1] = StrApiSig THEN d[i][2] ELSE quote(d[i][2])>>]

\* The signature input of format_signed_request for the caller's dict d.
sign_input_of(d) ==
    join_items(sorted_items(dict_set(d, StrApiKey, LAST_FM_API_KEY))) \o LAST_FM_SECRET

\* The params of format_signed_request after the signature and the format are
\* added.
signed_params(d) ==
    dict_set(dict_set(sorted_items(dict_set(d, StrApiKey, LAST_FM_API_KEY)),
                      StrApiSig, md5_hexdigest(sign_input_of(d))),
             StrFormat, StrJson)

InitSign ==
    /\ listens = [id \in 1..1 |-> InitialRow("uniform", id)]
    /\ pc = "idle"
    /\ exit = "none"
    /\ runs = 0
    /\ now = 0
    /\ since = NoBound
    /\ cursor = 0
    /\ batch = <<>>
    /\ response = NoResponse
    /\ n = 0
    /\ listens_remaining = <<>>
    /\ emitted = <<>>
    /\ row_ids = <<>>
    /\ stores = <<>>
    /\ accepted = [id \in 1..1 |-> 0]
    /\ lost = {}
    /\ rejected = {}
    /\ marked_by = [lastfm |-> {}, listenbrainz |-> {}]
    /\ offered = {}
    /\ faults = 0
    /\ lastfm_listens = {}
    /\ plan = "none"
    /\ NoImport
    /\ NoProcess
    /\ NoPairer
    /\ data \in DictsOver(CallerParams, MaxSignParams)
    /\ sign_input = <<>>
    /\ request = NoRequest

\* format_signed_request(http_method, data)
FormatSigned ==
    /\ request = NoRequest
    /\ \E http_method \in {"GET", "POST"} :
          request' = [method |-> http_method, body |-> urlencode(signed_params(data))]
    /\ sign_input' = sign_input_of(data)
    /\ UNCHANGED <<listens, pc, exit, runs, now, since, cursor, batch, response, n,
                   listens_remaining, emitted, row_ids, stores, accepted, lost, rejected, marked_by, offered,
                   faults, lastfm_listens, plan, import_vars, process_vars, pairer_vars,
                   data>>

NextSign == FormatSigned

SpecSign == InitSign /\ [][NextSign]_vars

---------------------------------------------------------------------------
(* iter_requests_listenbrainz on its own: the generator run over an upstream *)
(* of listens of given sizes, its consumer only taking the batches.         *)

\* 168 is the least a listen of the upstream takes: 161 bytes of keys and
\* punctuation with empty titles and a one-digit track number, and the seven
\* digits of its start second.  47 listens of 200 bytes fit in one body and
\* 47 of 240 bytes do not.
UniformSizes == {168, 200, 240}

\* A listen of 10200 bytes fills a body to the last byte, one of 10201 bytes
\* is one byte too big to submit.
MixedSizes == {200, 5200, 10200, 10201}

BatchInputs ==
    {[i \in 1..len |-> size] : <<len, size>> \in (0..MaxUpstream) \X UniformSizes}
    \cup UNION {[1..len -> MixedSizes] : len \in 0..MaxMixedLen}

BatchRow(id, size) ==
    [source       |-> "musium",
     started_at   |-> OldStart + 300 * id,
     completed_at |-> OldStart + 300 * id + 200,
     json_bytes   |-> size,
     scrobbled_at |-> Null]

InitBatch ==
    /\ \E sizes \in BatchInputs :
          /\ listens = [id \in 1..Len(sizes) |-> BatchRow(id, sizes[id])]
          /\ accepted = [id \in 1..Len(sizes) |-> 0]
          /\ offered = 1..Len(sizes)
    /\ pc = "lb_gen"
    /\ exit = "running"
    /\ runs = 1
    /\ now = OldStart + LastFmWindow
    /\ since = NoBound
    /\ cursor = 0
    /\ batch = <<>>
    /\ response = NoResponse
    /\ n = listens_per_batch
    /\ listens_remaining = <<>>
    /\ emitted = <<>>
    /\ row_ids = <<>>
    /\ stores = <<>>
    /\ lost = {}
    /\ rejected = {}
    /\ marked_by = [lastfm |-> {}, listenbrainz |-> {}]
    /\ faults = 0
    /\ lastfm_listens = {}
    /\ plan \in PlansFor(since)
    /\ NoImport
    /\ NoProcess
    /\ NoPairer
    /\ NoSigned

\* The consumer takes the batch and resumes the generator, which grows n.
BatchTake ==
    /\ pc = "lb_wait"
    /\ n' = grow(n)
    /\ pc' = "lb_gen"
    /\ UNCHANGED <<listens, exit, runs, now, since, cursor, batch, response,
                   listens_remaining, emitted, row_ids, stores, accepted, lost, rejected, marked_by, offered, faults, lastfm_listens, plan, import_vars,
                   process_vars, pairer_vars, sign_vars>>

NextBatch == LbPull \/ LbStop \/ LbYield \/ LbShrink \/ LbTooBig \/ BatchTake

\* The generator and its consumer are one sequential loop: a step that can be
\* taken is taken.
SpecBatch == InitBatch /\ [][NextBatch]_vars /\ WF_vars(NextBatch)

---------------------------------------------------------------------------
(* iter_chunks on its own: the chunks of a sequence of listens, for a chunk  *)
(* size n.                                                                   *)

\* 50 is the size cmd_scrobble passes, 47 the one iter_requests_listenbrainz
\* passes.
ChunkSizes == {1, 2, 7, listens_per_batch, LastFmBatchSize}

InitChunks ==
    /\ \E len \in 0..MaxChunkItems :
          /\ listens = [id \in 1..len |-> BatchRow(id, 200)]
          /\ accepted = [id \in 1..len |-> 0]
          /\ offered = 1..len
    /\ n \in ChunkSizes
    /\ pc = "chunks"
    /\ exit = "running"
    /\ runs = 1
    /\ now = OldStart + LastFmWindow
    /\ since = NoBound
    /\ cursor = 0
    /\ batch = <<>>
    /\ response = NoResponse
    /\ listens_remaining = <<>>
    /\ emitted = <<>>
    /\ row_ids = <<>>
    /\ stores = <<>>
    /\ lost = {}
    /\ rejected = {}
    /\ marked_by = [lastfm |-> {}, listenbrainz |-> {}]
    /\ faults = 0
    /\ lastfm_listens = {}
    /\ plan \in PlansFor(since)
    /\ NoImport
    /\ NoProcess
    /\ NoPairer
    /\ NoSigned

\* next() on iter_chunks(listens, n) yields a chunk.
ChunkYield ==
    /\ pc = "chunks"
    /\ \E chunk \in {iter_chunks_next(CursorRows(listens, since, plan, cursor), n)} :
          /\ chunk # <<>>
          /\ batch' = chunk
          /\ emitted' = Append(emitted, chunk)
          /\ cursor' = CursorAfter(CursorRows(listens, since, plan, cursor), chunk)
    /\ UNCHANGED <<listens, pc, exit, runs, now, since, response, n, listens_remaining,
                   row_ids, stores, accepted, lost, rejected, marked_by, offered, faults, lastfm_listens, plan, import_vars,
                   process_vars, pairer_vars, sign_vars>>

\* next() raises StopIteration.
ChunkStop ==
    /\ pc = "chunks"
    /\ iter_chunks_next(CursorRows(listens, since, plan, cursor), n) = <<>>
    /\ cursor' = Null
    /\ plan' = "none"
    /\ pc' = "idle"
    /\ exit' = "done"
    /\ UNCHANGED <<listens, runs, now, since, batch, response, n, listens_remaining, emitted,
                   row_ids, stores, accepted, lost, rejected, marked_by, offered, faults, lastfm_listens, import_vars,
                   process_vars, pairer_vars, sign_vars>>

NextChunks == ChunkYield \/ ChunkStop

SpecChunks == InitChunks /\ [][NextChunks]_vars

---------------------------------------------------------------------------
(* The order of the rows of get_listens_to_scrobble on stores whose ids and  *)
(* start times do not increase together.                                     *)

\* The start times of the rows: one per row, any order.
OrderStarts == {OldStart + 300 * k : k \in 1..(OrderRows + 1)}

InitOrder ==
    /\ \E starts \in [1..OrderRows -> OrderStarts] :
          /\ \A a, b \in 1..OrderRows : a # b => starts[a] # starts[b]
          /\ listens = [id \in 1..OrderRows |->
                            [BatchRow(id, 200) EXCEPT !.started_at = starts[id],
                                                      !.completed_at = starts[id] + 200]]
    /\ accepted = [id \in 1..OrderRows |-> 0]
    /\ since \in {NoBound, OldStart}
    /\ plan \in PlansFor(since)
    /\ NoImport
    /\ NoProcess
    /\ NoPairer
    /\ NoSigned
    /\ offered = EligibleIds(listens, since)
    /\ n \in {1, 2}
    /\ pc = "scan"
    /\ exit = "running"
    /\ runs = 1
    /\ now = OldStart + LastFmWindow
    /\ cursor = 0
    /\ batch = <<>>
    /\ response = NoResponse
    /\ listens_remaining = <<>>
    /\ emitted = <<>>
    /\ row_ids = <<>>
    /\ stores = <<>>
    /\ lost = {}
    /\ rejected = {}
    /\ marked_by = [lastfm |-> {}, listenbrainz |-> {}]
    /\ faults = 0
    /\ lastfm_listens = {}

\* The consumer takes the next chunk of n rows from the cursor.
OrderSend ==
    /\ pc = "scan"
    /\ \E chunk \in {iter_chunks_next(CursorRows(listens, since, plan, cursor), n)} :
          /\ chunk # <<>>
          /\ batch' = chunk
          /\ emitted' = Append(emitted, chunk)
          /\ cursor' = CursorAfter(CursorRows(listens, since, plan, cursor), chunk)
    /\ UNCHANGED <<listens, pc, exit, runs, now, since, response, n, listens_remaining,
                   row_ids, stores, accepted, lost, rejected, marked_by, offered, faults, lastfm_listens, plan, import_vars,
                   process_vars, pairer_vars, sign_vars>>

\* The cursor is exhausted.
OrderDone ==
    /\ pc = "scan"
    /\ iter_chunks_next(CursorRows(listens, since, plan, cursor), n) = <<>>
    /\ cursor' = Null
    /\ plan' = "none"
    /\ pc' = "idle"
    /\ exit' = "done"
    /\ UNCHANGED <<listens, runs, now, since, batch, response, n, listens_remaining,
                   emitted, row_ids, stores, accepted, lost, rejected, marked_by, offered, faults, lastfm_listens,
                   import_vars, process_vars, pairer_vars, sign_vars>>

NextOrder == OrderSend \/ OrderDone

SpecOrder == InitOrder /\ [][NextOrder]_vars

---------------------------------------------------------------------------
(* set_scrobbled on its own: two calls with the same row ids. *)

MarkInputs == UNION {[1..len -> 1..(MarkRows + 1)] : len \in 0..2}

MarkRow(id, marker) ==
    [source       |-> "musium",
     started_at   |-> OldStart + 300 * id,
     completed_at |-> OldStart + 300 * id + 200,
     json_bytes   |-> 200,
     scrobbled_at |-> marker]

InitMark ==
    /\ \E markers \in [1..MarkRows -> {Null, OldStart + 86400}] :
          listens = [id \in 1..MarkRows |-> MarkRow(id, markers[id])]
    /\ row_ids \in MarkInputs
    /\ stores = <<[table |-> listens, at |-> 0]>>
    /\ pc = "mark"
    /\ exit = "running"
    /\ runs = 1
    /\ now = 0
    /\ since = NoBound
    /\ cursor = 0
    /\ batch = <<>>
    /\ response = NoResponse
    /\ n = 0
    /\ listens_remaining = <<>>
    /\ emitted = <<>>
    /\ accepted = [id \in 1..MarkRows |-> 0]
    /\ lost = {}
    /\ rejected = {}
    /\ marked_by = [lastfm |-> {}, listenbrainz |-> {}]
    /\ offered = {}
    /\ faults = 0
    /\ lastfm_listens = {}
    /\ plan = "none"
    /\ NoImport
    /\ NoProcess
    /\ NoPairer
    /\ NoSigned

\* set_scrobbled(connection, now, row_ids), called at one of the instants Nows.
MarkCall ==
    /\ pc = "mark"
    /\ Len(stores) < 3
    /\ \E t \in Nows :
          /\ now' = t
          /\ listens' = set_scrobbled(listens, t, row_ids)
          /\ stores' = Append(stores, [table |-> set_scrobbled(listens, t, row_ids), at |-> t])
    /\ pending' = tx_commit(pending \cup updates_of(row_ids))
    /\ UNCHANGED <<pc, exit, runs, since, cursor, batch, response, n, listens_remaining,
                   emitted, row_ids, accepted, lost, rejected, marked_by, offered, faults, lastfm_listens, plan, import_vars,
                   headers, slept, argv, branch, pairer_vars, sign_vars>>

NextMark == MarkCall

SpecMark == InitMark /\ [][NextMark]_vars

---------------------------------------------------------------------------
(* Properties. *)

Marked(id) == listens[id].scrobbled_at # Null

\* The exits of a process that did not run to its end.
AbortExits == CrashExits \cup {"http_error", "assert_accepted", "assert_too_big"}

\* A Last.fm batch has been through the loop body, and the run went on or ended.
LastFmProcessed ==
    /\ since # NoBound
    /\ batch # <<>>
    /\ \/ pc = "lf_next"
       \/ pc = "idle" /\ exit \in {"done", "assert_accepted"}

\* The accepted counter of the response differs from the number of listens of
\* the batch whose result has code "0".
CountMismatch == Cardinality(AcceptedByRemote(batch, response)) # response.accepted

\* C1: when the number of per-item results with code "0" differs from the
\* accepted counter of the response, the run of cmd_scrobble aborts and no
\* listen of that batch is marked.
C1_MismatchMarksNothing ==
    (LastFmProcessed /\ CountMismatch) =>
        /\ pc = "idle" /\ exit = "assert_accepted"
        /\ \A i \in 1..Len(batch) : ~Marked(batch[i])

\* C2: a step of cmd_scrobble that takes a batch through the accepted-count
\* check marks exactly the listens whose result, at the same position of the
\* response, has code "0": such a listen gets the run's timestamp, every other
\* listen of the batch stays unmarked and no row outside the batch changes.
C2_MarkedIffCodeZero ==
    [][(pc = "lf_recv" /\ pc' = "lf_next") =>
        \A id \in DOMAIN listens :
            IF id \in Range(batch)
            THEN listens'[id].scrobbled_at =
                    (IF id \in AcceptedByRemote(batch, response) THEN now ELSE Null)
            ELSE listens'[id] = listens[id]]_vars

\* A batch went through the check with one listen marked and another, rejected
\* or without a result at its position, left unmarked.
C2_Witness ==
    /\ LastFmProcessed /\ pc = "lf_next"
    /\ \E i, j \in 1..Len(batch) :
          /\ ResultAt(response, i) = "0" /\ Marked(batch[i])
          /\ ResultAt(response, j) \in {"1", "none"} /\ ~Marked(batch[j])

\* C3: no request to a remote service holds a listen whose marker is set: at
\* the time a request is out, in any run, every listen of it is unmarked.
C3_NoMarkedListenSent ==
    pc \in {"lf_wait", "lb_wait"} => \A i \in 1..Len(batch) : ~Marked(batch[i])

\* A request is out in the second run while the store holds a listen marked by
\* the first run and a listen marked by an earlier batch of the second run.
C3_Witness ==
    /\ pc \in {"lf_wait", "lb_wait"}
    /\ runs = 2
    /\ \E a, b \in DOMAIN listens :
          /\ accepted[a] > 0 /\ Marked(a) /\ listens[a].scrobbled_at # now
          /\ accepted[b] > 0 /\ listens[b].scrobbled_at = now

\* The next run is a run of the same submit command.
SameCommandStarts ==
    /\ pc = "idle" /\ pc' \in {"lf_next", "lb_gen"}
    /\ (since = NoBound) <=> (since' = NoBound)

\* C4 as claimed: after a run that aborted or crashed, every listen the run's
\* query yielded and whose marker was not committed is yielded again by the
\* query of the next run of the same submit command.
C4_NextRunYieldsUnmarked ==
    [][(SameCommandStarts /\ exit \in AbortExits) =>
        \A id \in offered : ~Marked(id) => id \in offered']_vars

\* C4 amended: a run that aborts or crashes leaves every listen its query
\* yielded either unmarked and still matching that query, or marked and
\* accepted by the remote; the next run of the same command yields the
\* unmarked ones again unless its own lower bound on the start time (Last.fm:
\* 14 days before its start) has moved past them.
C4_AbortLosesNothing ==
    [][/\ (pc' = "idle" /\ exit' \in AbortExits) =>
            \A id \in offered' :
                /\ ~Marked(id)' => Eligible(listens'[id], since')
                /\ Marked(id)' => accepted'[id] > 0
       /\ (SameCommandStarts /\ exit \in AbortExits) =>
            \A id \in offered :
                (~Marked(id) /\ (since' # NoBound => listens[id].started_at > since'))
                    => id \in offered']_vars

\* A run aborted after it committed the marker of one listen it was to submit
\* and before another was marked.
C4_Witness ==
    /\ pc = "idle" /\ exit \in AbortExits
    /\ \E a, b \in offered : Marked(a) /\ ~Marked(b)

\* C5: a listen is accepted by a remote service more than once only if the
\* process died after the remote accepted it and before its marker was
\* committed; while that never happened, every listen was accepted at most once.
C5_TwiceOnlyAfterLostCommit ==
    /\ \A id \in DOMAIN listens : accepted[id] > 1 => id \in lost
    /\ lost = {} => \A id \in DOMAIN listens : accepted[id] <= 1

\* A listen was accepted twice: the first time the process died before the commit.
C5_Witness == \E id \in lost : accepted[id] = 2 /\ Marked(id)

\* C6: a marker that is set is never changed, to another value or back to
\* null, by any step of either submit command, in the run that set it or in
\* any later run.  (The steps of the import have no statement on table
\* listens; the formula holds of them in SpecMain, where a sync runs the
\* import after its submit has set markers.)
C6_MarkerSetOnce ==
    [][\A id \in DOMAIN listens :
          Marked(id) => listens'[id].scrobbled_at = listens[id].scrobbled_at]_vars

\* The second run, started at a later instant than the first, has committed
\* markers while the store holds markers of the first run.
C6_Witness ==
    /\ runs = 2
    /\ \E a, b \in DOMAIN listens :
          /\ accepted[a] > 0 /\ Marked(a) /\ listens[a].scrobbled_at < now
          /\ accepted[b] > 0 /\ listens[b].scrobbled_at = now

\* The ids passed to the direct set_scrobbled calls.
Passed == Range(row_ids)

\* C7: a second set_scrobbled call with the same row ids leaves the table
\* as the first call left it, whatever timestamp it passes.  (stores holds
\* the table before the first call, after it and after the second call, each
\* with the timestamp the call passed.)
C7_SecondCallSameStore == Len(stores) >= 3 => stores[3].table = stores[2].table

\* C8: set_scrobbled sets the marker of exactly the rows whose id is passed,
\* all of them in the one step that commits, and changes neither the marker of
\* another row nor another column of any row.
C8_MarksExactlyIds ==
    Len(stores) >= 2 =>
        \A id \in DOMAIN listens :
            stores[2].table[id] =
                (IF id \in Passed
                 THEN [stores[1].table[id] EXCEPT !.scrobbled_at = stores[2].at]
                 ELSE stores[1].table[id])

\* A call marked a row that was unmarked and left an unmarked row unmarked.
C8_Witness ==
    /\ Len(stores) >= 2
    /\ \E a, b \in DOMAIN listens :
          /\ a \in Passed /\ stores[1].table[a].scrobbled_at = Null
          /\ stores[2].table[a].scrobbled_at = stores[2].at
          /\ b \notin Passed /\ stores[2].table[b].scrobbled_at = Null

\* C9: every batch iter_requests_listenbrainz yields is non-empty and its
\* request body is at most 10,240 bytes long.
C9_BatchFits ==
    \A i \in 1..Len(emitted) :
        /\ Len(emitted[i]) > 0
        /\ body_bytes_len(listens, emitted[i]) <= 10240

\* A batch was yielded after a shrink, with a body of exactly 10,240 bytes.
C9_Witness ==
    /\ n < listens_per_batch
    /\ \E i \in 1..Len(emitted) : body_bytes_len(listens, emitted[i]) = 10240

\* The ids a step of the cursor hands on: the batch cmd_scrobble builds, or
\* what iter_requests_listenbrainz adds to its buffer.
Stepped ==
    CASE pc = "lf_next" /\ pc' = "lf_wait" -> Range(batch')
      [] pc = "lb_gen" /\ Len(listens_remaining') > Len(listens_remaining) ->
            Range(Drop(listens_remaining', Len(listens_remaining)))
      [] OTHER -> {}

\* The conditions of the query, with its numbers written out.
Wanted(id, bound) ==
    /\ listens[id].scrobbled_at = Null
    /\ listens[id].source = "musium"
    /\ listens[id].completed_at - listens[id].started_at > 30
    /\ (bound # NoBound => listens[id].started_at > bound)

\* C13: get_listens_to_scrobble yields a listen if and only if its marker is
\* null, its source is 'musium', it played for more than 30 seconds and, when
\* a bound is given, it started after the bound; cmd_scrobble passes its start
\* minus 14 days and cmd_submit_listens no bound; the query and the steps of
\* its cursor leave the store as it is.
C13_QueryYieldsEligible ==
    /\ []((pc \in {"lf_next", "lb_gen"} /\ cursor = 0) =>
              \E yielded \in {Range(get_listens_to_scrobble(listens, since, plan))} :
                 /\ \A id \in DOMAIN listens : id \in yielded <=> Wanted(id, since)
                 /\ offered = yielded)
    /\ [][/\ (pc = "idle" /\ pc' \in {"lf_next", "lb_gen"}) =>
               /\ since' = (IF pc' = "lf_next" THEN now' - 14 * 86400 ELSE NoBound)
               /\ listens' = listens
               /\ cursor' = 0
          /\ (pc \in {"lf_next", "lb_gen"} /\ cursor' # cursor) =>
               /\ listens' = listens
               /\ \E stepped \in {Stepped} :
                     \A id \in DOMAIN listens :
                        id \in stepped <=>
                           /\ Wanted(id, since)
                           /\ cursor # 0 =>
                                 ScanKey(listens, plan, id) >= ScanKey(listens, plan, cursor)
                           /\ cursor' # Null =>
                                 ScanKey(listens, plan, id) < ScanKey(listens, plan, cursor')]_vars

\* cmd_scrobble started at the instant the oldest listen is exactly 14 days
\* old: its query leaves out that listen, the listen of another source, the one
\* played for 30 seconds and the marked one, and yields the one played for 31.
C13_Witness ==
    /\ pc = "lf_next" /\ cursor = 0
    /\ since = listens[1].started_at
    /\ offered \cap {1, 2, 3, 4, 7} = {4}

\* The batches of bs one after another, as one sequence.
RECURSIVE Flatten(_)
Flatten(bs) == IF bs = <<>> THEN <<>> ELSE Flatten(Take(bs, Len(bs) - 1)) \o bs[Len(bs)]

\* C11: the batches iter_requests_listenbrainz has yielded, one after another,
\* are at every point a prefix of its upstream, and are the whole upstream
\* once the generator has ended normally: nothing twice, skipped or reordered.
C11_BatchesArePrefix ==
    LET upstream == get_listens_to_scrobble(listens, since, plan)
        flat == Flatten(emitted)
    IN  /\ Len(flat) <= Len(upstream)
        /\ flat = SubSeq(upstream, 1, Len(flat))
        /\ (pc = "idle" /\ exit = "done") => flat = upstream

\* The generator ended normally on an upstream that took three pulls to read,
\* after a round of shrinking, with at least three batches yielded.
C11_Witness ==
    /\ pc = "idle" /\ exit = "done"
    /\ Len(listens) > 2 * listens_per_batch
    /\ Len(emitted) >= 3
    /\ n < listens_per_batch + GrowStep * Len(emitted)
    /\ Flatten(emitted) = get_listens_to_scrobble(listens, since, plan)

\* The lengths of the sequences of bs.
Lengths(bs) == [i \in 1..Len(bs) |-> Len(bs[i])]

\* C12: iter_chunks(seq, n) yields consecutive groups in upstream order, each
\* of exactly n items but the last, which holds 1 to n items; no group is
\* empty, the groups one after another are seq, an empty seq yields no group,
\* and 120 items with n = 50 give groups of 50, 50 and 20.
C12_ChunksPartition ==
    LET seq == get_listens_to_scrobble(listens, since, plan)
        flat == Flatten(emitted)
        ended == pc = "idle" /\ exit = "done"
    IN  /\ \A i \in 1..Len(emitted) :
              /\ Len(emitted[i]) >= 1
              /\ Len(emitted[i]) <= n
              /\ i < Len(emitted) => Len(emitted[i]) = n
        /\ Len(flat) <= Len(seq)
        /\ flat = SubSeq(seq, 1, Len(flat))
        /\ ended => flat = seq
        /\ (ended /\ seq = <<>>) => emitted = <<>>
        /\ (ended /\ Len(seq) = 120 /\ n = 50) => Lengths(emitted) = <<50, 50, 20>>

\* iter_chunks ended on 120 items with n = 50, after groups of 50, 50 and 20.
C12_Witness ==
    /\ pc = "idle" /\ exit = "done"
    /\ Len(listens) = 120 /\ n = 50
    /\ Lengths(emitted) = <<50, 50, 20>>

\* C14: the query yields the eligible listens in ascending id order, so ids
\* increase within a batch and from each batch to the next.
C14_AscendingIds ==
    LET flat == Flatten(emitted)
    IN  \A i, j \in 1..Len(flat) : i < j => flat[i] < flat[j]

\* The generator has ended: every listen of the upstream was yielded, or the
\* first listen of the buffer is too big for a request of its own.
Terminated ==
    /\ pc = "idle"
    /\ \/ /\ exit = "done"
          /\ listens_remaining = <<>>
          /\ CursorRows(listens, since, plan, cursor) = <<>>
       \/ /\ exit = "assert_too_big"
          /\ n = 1
          /\ ~request_fits(listens, Take(listens_remaining, 1))

\* C10: iter_requests_listenbrainz terminates on every finite upstream: it
\* consumes all of it and stops, or aborts on a listen too big to submit.
C10_Terminates == <>Terminated

\* The generator ended after it had shrunk n and grown it again.
C10_Witness ==
    /\ Terminated /\ exit = "done"
    /\ Len(emitted) >= 2
    /\ n < listens_per_batch + GrowStep * Len(emitted)


\* The rows of table lastfm_listens with a start after the bound b.
NewerThan(table, b) == {r \in table : r.started_at > (IF b = NoBound THEN 0 ELSE b)}

\* C15: after a page that was imported, cmd_lastfm_import stops if and only if
\* the number of rows newer than the lower bound equals the total the service
\* reported or the page is the last one reported; otherwise it goes on to the
\* next page.  When the counts match after page 3 of 10 it stops at page 3.
C15_StopsIffComplete ==
    [][(pc = "im_page" /\ tracks' # <<>>) =>
          LET complete ==
                  \/ Cardinality(NewerThan(lastfm_listens', after_timestamp))
                        = result'.total_listens
                  \/ page = result'.total_pages
          IN  /\ complete => (pc' = "idle" /\ exit' = "done" /\ page' = page)
              /\ ~complete => (pc' = "im_page" /\ page' = page + 1)]_vars

\* The import stopped at page 3 of 10 reported pages because the counts match.
C15_Witness ==
    /\ pc = "idle" /\ exit = "done"
    /\ page = 3
    /\ result.total_pages = 10
    /\ Cardinality(NewerThan(lastfm_listens, after_timestamp)) = result.total_listens

\* C16: a page request that fails leaves table lastfm_listens as it was and
\* the page number as it was, so the same page is requested again; the page
\* number starts at 1 and changes only by one, upwards, after a page that was
\* imported and did not complete the import.
C16_FailedPageRetried ==
    [][/\ (pc = "idle" /\ pc' = "im_page") => page' = 1
       /\ (pc = "im_page" /\ fails' = fails + 1) =>
              /\ lastfm_listens' = lastfm_listens
              /\ page' = page
              /\ pc' = "im_page" \/ (pc' = "idle" /\ exit' = "assert_errors")
       /\ pc = "im_page" =>
              \/ page' = page
              \/ page' = page + 1 /\ tracks' # <<>> /\ fails' = 0 /\ pc' = "im_page"]_vars

\* Page 2 is being retried after a failure, page 1 having been imported.
C16_Witness ==
    /\ pc = "im_page"
    /\ page = 2
    /\ fails >= 2
    /\ lastfm_listens # {}

\* C17: the import ends on the assert on the error counter exactly when 10
\* page requests in a row have failed; a page that is imported sets the
\* counter back to zero, so 9 failures and then a success do not abort.
C17_AbortAfterTenInARow ==
    /\ (pc = "idle" /\ exit = "assert_errors") <=> fails = 10
    /\ pc = "im_page" => (fails < 10 /\ n_errors = fails)
    /\ exit = "assert_errors" => n_errors = fails

\* The import aborted on page 2 after 10 failures in a row, having before
\* that imported a page right after 9 failures in a row.
C17_Witness ==
    /\ pc = "idle" /\ exit = "assert_errors"
    /\ recovered
    /\ page = 2
    /\ fails = 10

\* C18 as claimed: in incremental mode the lower bound is the run's start
\* minus 16 days, or the newest start time in lastfm_listens when that is more
\* recent; a full import has no lower bound.
C18_BoundNarrowedToNewest ==
    [][(pc = "idle" /\ pc' = "im_page") =>
          LET window_start == now' - 16 * 86400
              starts == {r.started_at : r \in lastfm_listens}
          IN  /\ is_full' => after_timestamp' = NoBound
              /\ ~is_full' =>
                    IF \E m \in starts : m > window_start
                    THEN after_timestamp' \in starts
                         /\ \A m \in starts : m <= after_timestamp'
                    ELSE after_timestamp' = window_start]_vars

\* C18 amended: in incremental mode the lower bound is the run's start minus
\* 16 days, or the newest start time in lastfm_listens when that is earlier
\* than the start of this window (the bound is widened back to the newest row,
\* never narrowed); a full import has no lower bound.
C18_BoundWidenedToNewest ==
    [][(pc = "idle" /\ pc' = "im_page") =>
          LET window_start == now' - 16 * 86400
              starts == {r.started_at : r \in lastfm_listens}
          IN  /\ is_full' => after_timestamp' = NoBound
              /\ ~is_full' =>
                    IF starts # {} /\ \A m \in starts : m < window_start
                    THEN after_timestamp' \in starts
                         /\ \A m \in starts : m <= after_timestamp'
                    ELSE after_timestamp' = window_start]_vars

\* An incremental import started on a table whose newest row is older than
\* the window: its bound is that row's start time.
C18_Witness ==
    /\ pc = "im_page"
    /\ ~is_full
    /\ after_timestamp = TrackOld.started_at
    /\ after_timestamp < now - 16 * 86400

\* C19: importing a page never removes or changes a row of lastfm_listens,
\* adds only rows of that page, and adds none whose natural key the table
\* already holds: a page whose rows are all in the table leaves it unchanged,
\* the row count never decreases and no two rows share a natural key.
C19_ImportOnlyAddsNewKeys ==
    [][LET key(r) == <<r.started_at, r.title>>
           paged == {RowOf(tracks'[i]) : i \in 1..Len(tracks')}
       IN  /\ lastfm_listens \subseteq lastfm_listens'
           /\ Cardinality(lastfm_listens') >= Cardinality(lastfm_listens)
           /\ lastfm_listens' \ lastfm_listens \subseteq paged
           /\ \A r1, r2 \in lastfm_listens' : key(r1) = key(r2) => r1 = r2
           /\ (pc = "im_page" /\ \A r \in paged : \E q \in lastfm_listens : key(q) = key(r))
                 => lastfm_listens' = lastfm_listens]_vars

\* In a second run, a page brought a track whose key the table holds with
\* another album mbid: the row of the table is the one that stays.
C19_Witness ==
    /\ runs = 2
    /\ tracks = <<TrackOldMbid>>
    /\ RowOf(TrackOld) \in lastfm_listens
    /\ RowOf(TrackOldMbid) \notin lastfm_listens

\* C20: when a ListenBrainz request fails with an HTTP error, no listen of its
\* batch is marked, the process ends there with exit code 1, so no further
\* batch is sent, and the listens of the batches sent before in the run keep
\* the marker the run gave them.
C20_HttpErrorEndsRun ==
    [][(pc = "lb_wait" /\ faults' = faults + 1 /\ exit' \notin CrashExits) =>
          /\ pc' = "idle"
          /\ exit_code(exit') = 1
          /\ listens' = listens
          /\ \A i \in 1..Len(batch') : listens'[batch'[i]].scrobbled_at = Null
          /\ \A k \in 1..(Len(emitted') - 1) : \A i \in 1..Len(emitted'[k]) :
                listens'[emitted'[k][i]].scrobbled_at = now']_vars

\* The request of the second batch of a ListenBrainz run failed: the first
\* batch is marked, the second is not.
C20_Witness ==
    /\ pc = "idle" /\ exit = "http_error" /\ since = NoBound
    /\ Len(emitted) = 2
    /\ \A i \in 1..Len(emitted[1]) : listens[emitted[1][i]].scrobbled_at = now
    /\ \A i \in 1..Len(batch) : ~Marked(batch[i])


\* C21: after a ListenBrainz response with status 200, and after the markers
\* of its batch are committed, the loop sleeps for the seconds of
\* X-RateLimit-Reset-In if and only if X-RateLimit-Remaining is at most 1; a
\* missing X-RateLimit-Remaining counts as 10, a missing X-RateLimit-Reset-In
\* as 1 second.  The generator is resumed, and the next request built, only
\* after that; no other step sleeps.
C21_SleepsIffQuotaUsedUp ==
    [][/\ pc = "lb_rate" =>
             LET remaining == IF headers.remaining = "absent" THEN 10
                              ELSE int_of(headers.remaining)
                 reset_in == IF headers.reset = "absent" THEN 1 ELSE int_of(headers.reset)
             IN  /\ \A i \in 1..Len(batch) : listens[batch[i]].scrobbled_at = now
                 /\ listens' = listens
                 /\ remaining <= 1 => slept' = reset_in
                 /\ remaining > 1 => slept' = 0
                 /\ pc' = "lb_gen"
       /\ pc # "lb_rate" => slept' = 0
       /\ pc' = "lb_wait" => pc = "lb_gen"]_vars

\* The loop has slept 3 seconds after the first batch, whose response said
\* that one call remained, and has listens left to send.
C21_Witness ==
    /\ pc = "lb_gen"
    /\ slept = 3
    /\ Len(emitted) = 1
    /\ \A i \in 1..Len(batch) : listens[batch[i]].scrobbled_at = now
    /\ listens_remaining # <<>>


\* C22: when the Last.fm response to a batch of one listen carries the
\* per-item result as a bare object, cmd_scrobble marks the listen, or leaves it
\* unmarked, and ends or goes on, exactly as for the response that carries the
\* same object in a list of one element: the listen is marked with the time of
\* the run iff the code of the object is "0".  (A process that dies before
\* the loop body has run is not a step of cmd_scrobble.)
C22_BareObjectAsSingleton ==
    [][(pc = "lf_recv" /\ exit' \notin CrashExits /\ ~response.is_list /\ Len(batch) = 1) =>
          LET wrapped == [response EXCEPT !.is_list = TRUE, !.items = <<response.object>>]
              code_zero == response.object = "0"
          IN  /\ listens' = scrobble_marked(listens, now, batch, wrapped)
              /\ (pc' = "lf_next") = accepted_matches(batch, wrapped)
              /\ code_zero => listens'[batch[1]].scrobbled_at = now
              /\ ~code_zero => listens'[batch[1]].scrobbled_at = Null
              /\ \A id \in DOMAIN listens : id # batch[1] => listens'[id] = listens[id]]_vars

\* A batch of one listen was answered with a bare object of code "0" and the
\* listen is marked.
C22_Witness ==
    /\ pc = "lf_next"
    /\ Len(batch) = 1
    /\ ~response.is_list
    /\ response.object = "0"
    /\ listens[batch[1]].scrobbled_at = now


\* C23: the signature input of format_signed_request is, for the caller's
\* parameters and the API key taken in ascending order of their keys, each key
\* directly followed by its value, and then the shared secret; the format and
\* the signature parameter, which the request carries, are not part of it; and
\* it is the same for every order in which the caller passes the parameters.
C23_SignInputSortedByKey ==
    request # NoRequest =>
        LET items == Range(data) \cup {<<StrApiKey, LAST_FM_API_KEY>>}
            rank(it) == 1 + Cardinality({o \in items : StrLess(o[1], it[1])})
            ordered == [r \in 1..Cardinality(items) |-> CHOOSE it \in items : rank(it) = r]
        IN  /\ sign_input
                  = Flatten([r \in 1..Cardinality(items) |-> ordered[r][1] \o ordered[r][2]])
                    \o LAST_FM_SECRET
            /\ \A d \in DictsOver(Range(data), Len(data)) :
                  Len(d) = Len(data) => sign_input_of(d) = sign_input
            /\ Len(request.body) = Cardinality(items) + 2
            /\ \A i \in 1..Len(request.body) :
                  request.body[i][1] \in {StrApiSig, StrFormat} <=> i > Cardinality(items)

\* A request was signed for the parameters track[0], trackNumber[0] and
\* method, passed in that order: the input has api_key, method, trackNumber[0]
\* and track[0], in that order.
C23_Witness ==
    /\ request # NoRequest
    /\ Len(data) = 3
    /\ data[1][1] = StrTrack0 /\ data[2][1] = StrTrackNumber0 /\ data[3][1] = StrMethod
    /\ sign_input = StrApiKey \o LAST_FM_API_KEY \o StrMethod \o data[3][2]
                    \o StrTrackNumber0 \o data[2][2] \o StrTrack0 \o data[1][2]
                    \o LAST_FM_SECRET


\* C27: the sync command starts the incremental import only when cmd_scrobble
\* has run to its end and returned.  The step in which cmd_scrobble aborts
\* ends the process with an exit code that is not 0: with code 1, unless a
\* signal killed the process, which then has no exit code of its own; and
\* from the state the process ended in there is no further step, so that no
\* import is started.  A command line that none of the branches of __main__
\* recognises starts no command, leaves the store as it is and exits with
\* code 1.
C27_SyncSubmitsThenImports ==
    [][/\ (argv' = <<"lastfm", "sync", "db", "user">> /\ pc # "im_page" /\ pc' = "im_page") =>
             /\ pc = "idle"
             /\ exit = "done"
             /\ cursor = Null
             /\ ~is_full'
             /\ page' = 1
       /\ (argv = <<"lastfm", "sync", "db", "user">>
            /\ pc \in {"lf_next", "lf_wait", "lf_recv"} /\ pc' = "idle" /\ exit' # "done") =>
             /\ exit_code(exit') # 0
             /\ exit' # "killed" => exit_code(exit') = 1
             /\ UNCHANGED <<import_vars, lastfm_listens>>
       /\ (argv = <<"lastfm", "sync", "db", "user">> /\ pc = "idle" /\ exit # "done") => FALSE
       /\ (branch = "none"
            /\ argv' \notin {<<"lastfm", "authenticate">>,
                              <<"lastfm", "scrobble", "db">>,
                              <<"lastfm", "import", "full", "db", "user">>,
                              <<"lastfm", "import", "incremental", "db", "user">>,
                              <<"lastfm", "sync", "db", "user">>,
                              <<"listenbrainz", "submit-listens", "db">>}) =>
             /\ pc' = "idle"
             /\ exit_code(exit') = 1
             /\ listens' = listens
             /\ lastfm_listens' = lastfm_listens]_vars

\* A sync process has ended after its import, which followed a submit that
\* marked listens.
C27_Witness ==
    /\ argv = <<"lastfm", "sync", "db", "user">>
    /\ pc = "idle"
    /\ exit = "done"
    /\ page > 1
    /\ ~is_full
    /\ \E id \in DOMAIN listens : listens[id].scrobbled_at \in Nows
    /\ RowOf(TrackIn) \in lastfm_listens


\* C24: whenever a request is about to be sent or is out, to Last.fm, to
\* ListenBrainz or for a page of the history, the sqlite transaction holds no
\* uncommitted write: the markers of a batch are committed before the next
\* request, the rows of a page are committed, or rolled back, before the next
\* page request; and none is left when the process has ended.
C24_NoWriteOpenAtRequest ==
    pc \in {"lf_next", "lf_wait", "lb_gen", "lb_wait", "im_page", "au_token", "au_session",
            "idle"} => pending = {}

\* The import of a sync is about to request page 2: the markers of the submit
\* and the rows of page 1 are in the tables and no write is uncommitted.
C24_Witness ==
    /\ branch = "sync_import"
    /\ pc = "im_page"
    /\ page = 2
    /\ RowOf(TrackIn) \in lastfm_listens
    /\ \E id \in DOMAIN listens : listens[id].scrobbled_at \in Nows
    /\ pending = {}


\* C25: EventPairer emits a listen on an event if and only if the event before
\* it is a started event, the event is a completed event of the same queue
\* entry and track, the time between the two is within 10 seconds of the
\* declared duration and the declared duration is above 30 seconds; the
\* listen is the started event.  Of the log started A, completed A (40 s
\* declared, 41 s later), started B, started C, completed C (20 s declared,
\* 20 s later), only the pair of A is emitted.
C25_EmitsIffPaired ==
    LET Qualifies(i) ==
            /\ i >= 2
            /\ stream[i - 1].type = "started"
            /\ stream[i].type = "completed"
            /\ stream[i - 1].queue_id = stream[i].queue_id
            /\ stream[i - 1].track_id = stream[i].track_id
            /\ (stream[i].time - stream[i - 1].time) - stream[i].duration_seconds \in -10..10
            /\ stream[i].duration_seconds > 30
    IN  /\ \A i \in 1..pos : Qualifies(i) <=> \E k \in 1..Len(paired) : paired[k].at = i
        /\ \A k \in 1..Len(paired) :
              /\ paired[k].at \in 2..pos
              /\ paired[k].listen = stream[paired[k].at - 1]
        /\ \A k, l \in 1..Len(paired) : k < l => paired[k].at < paired[l].at
        /\ (stream = LogOf(CraftedKinds) /\ pos = Len(stream)) =>
              paired = <<[listen |-> stream[1], at |-> 2]>>

\* The crafted log has been read to its end and one listen, of track A, was
\* emitted.
C25_Witness ==
    /\ stream = LogOf(CraftedKinds)
    /\ pos = 5
    /\ Len(paired) = 1
    /\ paired[1].listen.track_id = "A"
    /\ paired[1].listen.type = "started"

\* C26: after every event the register of EventPairer holds that event, so a
\* completed event pairs only with the event right before it: a started event
\* followed by another event before its completion gives no listen, no event
\* is part of two listens, and an empty log gives none.
C26_RegisterIsLastEvent ==
    /\ previous = (IF pos = 0 THEN NoEvent ELSE stream[pos])
    /\ \A k \in 1..Len(paired) :
          /\ stream[paired[k].at].type = "completed"
          /\ stream[paired[k].at - 1].type = "started"
          /\ paired[k].listen = stream[paired[k].at - 1]
    /\ \A k, l \in 1..Len(paired) :
          k # l => {paired[k].at - 1, paired[k].at} \cap {paired[l].at - 1, paired[l].at} = {}
    /\ Len(stream) = 0 => paired = <<>>

\* Track A started, track B started 20 seconds later, and A was completed 40
\* seconds after its start: the log is read to its end and nothing emitted.
C26_Witness ==
    /\ Len(stream) = 3
    /\ pos = 3
    /\ stream[1].type = "started" /\ stream[1].queue_id = 1
    /\ stream[2].type = "started" /\ stream[2].queue_id = 2
    /\ stream[3].type = "completed" /\ stream[3].queue_id = 1
    /\ stream[3].time - stream[1].time = 40
    /\ paired = <<>>


\* A step of iter_requests_listenbrainz that slices a tentative batch off the
\* buffer: it yields the batch, shrinks n, or fails the assert on n.
TentativeBatch ==
    /\ pc = "lb_gen"
    /\ emitted' # emitted \/ n' # n \/ exit' = "assert_too_big"

\* Upstream is exhausted: get_listens_to_scrobble has no row left for
\* iter_chunks.
UpstreamExhausted == CursorRows(listens, since, plan, cursor) = <<>>

\* C28 (amended): before each tentative batch the buffer of
\* iter_requests_listenbrainz holds at least 2 * listens_per_batch = 94
\* listens, twice the target size the generator started with, unless upstream
\* is exhausted; n stays below that, so a tentative batch holds fewer than n
\* listens only when upstream is exhausted.
C28_BufferTwiceFirstSize ==
    [][TentativeBatch =>
          /\ Len(listens_remaining) >= 2 * listens_per_batch \/ UpstreamExhausted
          /\ Len(Take(listens_remaining, n)) < n => UpstreamExhausted]_vars

\* C28 as stated: before each tentative batch the buffer holds at least 2 * n
\* listens, n being the current target size, unless upstream is exhausted.
C28_BufferTwiceCurrentSize ==
    [][TentativeBatch =>
          /\ Len(listens_remaining) >= 2 * n \/ UpstreamExhausted
          /\ Len(Take(listens_remaining, n)) < n => UpstreamExhausted]_vars

\* One batch of 47 was yielded and n grew to 52; the buffer was topped up to
\* 94 listens, fewer than 2 * 52, with listens left upstream.
C28_Witness ==
    /\ pc = "lb_gen"
    /\ Len(emitted) = 1
    /\ n = listens_per_batch + GrowStep
    /\ Len(listens_remaining) = 2 * listens_per_batch
    /\ Len(listens_remaining) < 2 * n
    /\ ~UpstreamExhausted


\* C29: iter_requests_listenbrainz starts with n = 10240 div 215 = 47.  When
\* it is resumed after a batch it yielded, n has grown by exactly 5; a
\* tentative batch that is over the byte limit while n > 1 makes n exactly one
\* less and leaves the buffer with the same listens in the same order; n
\* changes in no other step.
C29_GrowsByFiveShrinksByOne ==
    /\ n = 10240 \div 215
    /\ n = 47
    /\ [][/\ pc = "lb_wait" => n' = n + 5 /\ listens_remaining' = listens_remaining
          /\ (pc = "lb_gen" /\ emitted' # emitted) => (n' = n /\ pc' = "lb_wait")
          /\ (pc = "lb_gen" /\ n' # n) =>
                /\ ~request_fits(listens, Take(listens_remaining, n))
                /\ n' = n - 1
                /\ listens_remaining' = listens_remaining
                /\ emitted' = emitted
          /\ (TentativeBatch /\ n > 1 /\ ~request_fits(listens, Take(listens_remaining, n))) =>
                (n' = n - 1 /\ listens_remaining' = listens_remaining)
          /\ n' # n => pc \in {"lb_wait", "lb_gen"}]_vars

\* Listens of 200 bytes: the first batch of 47 was yielded and n grew to 52;
\* 52 listens were over the limit, so n is 51 and the buffer holds its 94
\* listens, the next ones of upstream in order.
C29_Witness ==
    /\ pc = "lb_gen"
    /\ Len(listens) > 2 * listens_per_batch
    /\ \A id \in DOMAIN listens : listens[id].json_bytes = 200
    /\ Len(emitted) = 1 /\ Len(emitted[1]) = 47
    /\ n = 51
    /\ Len(listens_remaining) = 94
    /\ listens_remaining = [i \in 1..94 |-> 47 + i]


\* C30: n is at least 1 in every state of iter_requests_listenbrainz.  When
\* the generator has failed on a listen that is too big, n is 1, that listen
\* alone is over the byte limit, it still heads the buffer and is the listen
\* of upstream right after the batches yielded, so it was neither yielded nor
\* skipped, and from then on no further batch is yielded.
C30_NeverZeroAndFatalAtOne ==
    /\ [](n >= 1)
    /\ [](exit = "assert_too_big" =>
            LET upstream == get_listens_to_scrobble(listens, since, plan)
                flat == Flatten(emitted)
            IN  /\ pc = "idle"
                /\ n = 1
                /\ listens_remaining # <<>>
                /\ ~request_fits(listens, <<listens_remaining[1]>>)
                /\ flat = SubSeq(upstream, 1, Len(flat))
                /\ Len(flat) < Len(upstream)
                /\ listens_remaining[1] = upstream[Len(flat) + 1]
                /\ \A i \in 1..Len(flat) : flat[i] # listens_remaining[1])
    /\ [][exit = "assert_too_big" => (emitted' = emitted /\ exit' = exit)]_vars

\* A batch was yielded, then a listen of 10201 bytes made the generator fail
\* at n = 1 with a listen behind it in the buffer.
C30_Witness ==
    /\ exit = "assert_too_big"
    /\ n = 1
    /\ Len(emitted) >= 1
    /\ Len(listens_remaining) >= 2
    /\ listens[listens_remaining[1]].json_bytes = 10201
    /\ listens[listens_remaining[2]].json_bytes = 200


\* C31: when the service reports the same total page count P >= 1 in every
\* response, the import has imported at most P pages, the page it requests is
\* at most P, the import of the P-th page ends it, and the import comes to an
\* end.
C31_AtMostTotalPages ==
    /\ [](\A P \in served_pages :
            served_pages = {P} =>
               /\ P >= 1
               /\ page <= P
               /\ imported <= P
               /\ imported = P => pc = "idle")
    /\ pc = "im_page" ~> pc = "idle"

\* An import to which every response reported 3 pages ended normally with its
\* third page.
C31_Witness ==
    /\ pc = "idle" /\ exit = "done"
    /\ served_pages = {3}
    /\ imported = 3
    /\ page = 3

\* C32 as stated: when a request of the import is answered with status 200
\* and an empty track list, import_lastfm_page returns a result, the page
\* counts as imported and the import goes on or ends normally.  (The code
\* raises UnboundLocalError instead.)
C32_EmptyPageImported ==
    [][(pc = "im_page" /\ tracks' = <<>> /\ fails' = 0) =>
          /\ result' # NoResult
          /\ imported' = imported + 1
          /\ exit' \in {"running", "done"}]_vars


\* cmd_scrobble is started: now is taken and the query made.
LastFmStart == pc = "idle" /\ pc' = "lf_next"

\* The listen started less than 14 days before t.
InLastFmWindow(id, t) == listens[id].started_at > t - LastFmWindow

\* C33 (amended): the Last.fm run that gets a listen rejected leaves it
\* unmarked.  A later Last.fm run yields a rejected listen exactly when the
\* listen is still unmarked (no run in between has marked it: neither a
\* Last.fm run that got it accepted nor a ListenBrainz run, which marks every
\* listen of a batch the service takes) and started less than 14 days before
\* the start of the run; the run sends the listens it yields batch by batch
\* and has sent them all when it ends normally.  A Last.fm run neither sends
\* nor marks a listen that started 14 days or more before its start.
C33_RejectedOfferedWhileUnmarked ==
    [][/\ pc = "lf_recv" =>
             \A id \in RejectedByRemote(batch, response) : listens'[id].scrobbled_at = Null
       /\ LastFmStart =>
             \A id \in rejected :
                id \in offered' <=> (listens[id].scrobbled_at = Null /\ InLastFmWindow(id, now'))
       /\ (pc = "lf_next" /\ pc' = "lf_wait") =>
             /\ \A id \in Range(batch') :
                   /\ id \in offered
                   /\ InLastFmWindow(id, now)
                   /\ cursor # 0 => ScanKey(listens, plan, id) >= ScanKey(listens, plan, cursor)
             /\ \A id \in offered :
                   (/\ cursor # 0 => ScanKey(listens, plan, id) >= ScanKey(listens, plan, cursor)
                    /\ cursor' # Null => ScanKey(listens, plan, id) < ScanKey(listens, plan, cursor'))
                      => id \in Range(batch')
       /\ (pc = "lf_next" /\ exit' = "done") => (cursor = Null \/ offered = {})
       /\ pc \in {"lf_next", "lf_wait", "lf_recv"} =>
             \A id \in DOMAIN listens :
                listens'[id].scrobbled_at # listens[id].scrobbled_at => InLastFmWindow(id, now)]_vars

\* C33 as stated: a listen Last.fm rejected stays unmarked, so that only a
\* Last.fm run that gets it accepted marks it, and every later Last.fm run
\* that starts within 14 days of the listen's start yields it while it is
\* unmarked.
C33_RejectedResubmittedByEveryRun ==
    [][/\ \A id \in rejected :
             (listens[id].scrobbled_at = Null /\ listens'[id].scrobbled_at # Null) =>
                pc = "lf_recv"
       /\ LastFmStart =>
             \A id \in rejected :
                (listens[id].scrobbled_at = Null /\ now' - listens[id].started_at <= LastFmWindow)
                   => id \in offered']_vars

\* The third run, a Last.fm run, has sent its first batch.  The first run was
\* a Last.fm run that got a listen rejected; the second, a ListenBrainz run,
\* marked it: the third run, started less than 14 days after the listen did,
\* did not yield it and the batch does not hold it.
C33_Witness ==
    /\ pc = "lf_wait"
    /\ runs = 3
    /\ \E id \in rejected :
          /\ id \in marked_by.listenbrainz
          /\ id \notin marked_by.lastfm
          /\ listens[id].scrobbled_at # Null
          /\ InLastFmWindow(id, now)
          /\ id \notin offered
          /\ id \notin Range(batch)

\* The second run, a Last.fm run, has sent a batch that holds a listen the
\* first run got rejected.
RejectedSentAgain ==
    /\ pc = "lf_wait"
    /\ runs = 2
    /\ \E id \in rejected :
          /\ id \in Range(batch)
          /\ id \in offered
          /\ listens[id].scrobbled_at = Null
          /\ InLastFmWindow(id, now)

\* The third run, a Last.fm run, has started.  The first run got a listen
\* rejected, the second sent it again and got it accepted: the third did not
\* yield it.
RejectedAcceptedLater ==
    /\ pc = "lf_next"
    /\ runs = 3
    /\ \E id \in rejected :
          /\ id \in marked_by.lastfm
          /\ accepted[id] = 1
          /\ InLastFmWindow(id, now)
          /\ id \notin offered


\* C34: a listen that a Last.fm run has marked is marked for good, matches the
\* query of no later ListenBrainz run and is in no request to ListenBrainz;
\* likewise a listen a ListenBrainz run has marked matches the query of no
\* later Last.fm run and is in no request to Last.fm.  Each command marks only
\* listens the service accepted.
C34_MarkerSharedByServices ==
    /\ \A id \in marked_by.lastfm \cup marked_by.listenbrainz :
          /\ listens[id].scrobbled_at # Null
          /\ accepted[id] > 0
          /\ ~Eligible(listens[id], NoBound)
          /\ ~Eligible(listens[id], OldStart - LastFmWindow)
    /\ (pc \in {"lb_gen", "lb_wait", "lb_recv", "lb_rate"} /\ since = NoBound) =>
          /\ offered \cap marked_by.lastfm = {}
          /\ Range(batch) \cap marked_by.lastfm = {}
          /\ Range(listens_remaining) \cap marked_by.lastfm = {}
          /\ \A k \in 1..Len(emitted) : Range(emitted[k]) \cap marked_by.lastfm = {}
    /\ pc \in {"lf_next", "lf_wait", "lf_recv"} =>
          /\ offered \cap marked_by.listenbrainz = {}
          /\ Range(batch) \cap marked_by.listenbrainz = {}

\* The first run was a Last.fm run that marked listens and got one rejected;
\* the second is a ListenBrainz run whose request is out with the rejected
\* listen and none of the marked ones.
C34_Witness ==
    /\ pc = "lb_wait"
    /\ runs = 2
    /\ marked_by.lastfm # {}
    /\ marked_by.listenbrainz = {}
    /\ rejected # {}
    /\ rejected \subseteq Range(batch)
    /\ Range(batch) \cap marked_by.lastfm = {}

============================================================================
